---- MODULE Spec2Model ----
(***************************************************************************)
(* Request lifecycle of ApiSrv (tr-apisrv): the per-request closure that   *)
(* requestCb creates, the four stream callbacks dataCb / endCb / errorCb / *)
(* timeoutCb registered on it, and the asynchronous pipeline that endCb    *)
(* runs (route lookup, authentication, validators, body decoding, merge,   *)
(* handler).  One request is followed from arrival to the end of its       *)
(* pipeline; the server options are fixed by the constructor.              *)
(*                                                                         *)
(* Eight specifications share the variables.  Spec follows one request     *)
(* from arrival to the end of its pipeline, with the route lookup as an    *)
(* input.  FairSpec follows the reading of one request under the timer     *)
(* that requestCb arms.  MergeSpec runs the parameter merge of endCb       *)
(* (assignParams over body, query and path parameters) on every            *)
(* combination of small objects.  RegistrySpec calls requestHandleAdd and  *)
(* requestHandleDelete on the handler registry and resolves requests       *)
(* against it, with path templates compiled and matched as the code does.  *)
(* AddSpec calls requestHandleAdd alone, with arguments it rejects among   *)
(* the inputs.  ServedSpec follows one GET request whose route is looked   *)
(* up in the registry while requestHandleAdd and requestHandleDelete are   *)
(* called between its steps.  MatchSpec compiles a set of templates,       *)
(* matches one request path against each of them and resolves the path     *)
(* against a registry that holds them.  UpgradeSpec follows one upgrade    *)
(* request through upgradeCb.                                              *)
(***************************************************************************)
EXTENDS Integers, Sequences, FiniteSets, TLC

(* ---- bounds of the model ---- *)
MaxValue == 2              \* parameter values range over 1..MaxValue
MaxSegments == 4           \* a request path of a followed lookup has at most MaxSegments segments
MaxCalls == 2              \* requestHandleAdd / requestHandleDelete are called at most MaxCalls times
MaxServedCalls == 1        \* registry calls made while a request is served
MaxBodySizeBound == 1      \* maxBodySize option is 0 (no limit) or MaxBodySizeBound
MaxContentLength == 3      \* Content-Length header values range over -1..MaxContentLength
MaxChunk == 2              \* a data chunk carries 1..MaxChunk bytes
MaxTotal == 3              \* chunks are delivered while bodySize stays within MaxTotal

(* ---- values ---- *)
UndefinedLength == -1      \* declaredContentLength === undefined

Methods == {"GET", "POST", "PUT", "DELETE", "PATCH"}

Validators == {"path", "url", "body", "params"}

\* parsed media types that endCb distinguishes, "undefined" when no header was sent
ContentTypes == {"undefined", "application/json", "application/x-www-form-urlencoded",
                 "application/www-form-urlencoded", "multipart/form-data", "text/plain"}

Charsets == {"undefined", "utf-8", "iso-8859-1"}

\* the Content-Type header as received: absent, unparsable, or a media type with a charset
ContentTypeHeaders ==
    {[kind |-> "absent", type |-> "undefined", charset |-> "undefined"],
     [kind |-> "malformed", type |-> "undefined", charset |-> "undefined"]}
    \cup {[kind |-> "ok", type |-> t, charset |-> "undefined"] : t \in ContentTypes \ {"undefined"}}
    \cup {[kind |-> "ok", type |-> "application/json", charset |-> c] : c \in Charsets}

\* the Content-Length header as received: absent (or empty), a value that
\* parseInt(header, 10) makes no safe integer of (digits beyond 2^53, or no number at all), or
\* an integer ("2", "-1"); value is what parseInt gives
ContentLengthHeaders ==
    {[kind |-> "absent", value |-> 0], [kind |-> "nan", value |-> 0]}
    \cup {[kind |-> "int", value |-> n] : n \in -1..MaxContentLength}

\* what JSON.parse makes of a body of the given length: "{}" and "[]" need two bytes
JsonKinds(len) ==
    IF len = 0 THEN {"invalid"}
    ELSE IF len = 1 THEN {"invalid", "scalar", "falsy"}
    ELSE {"invalid", "scalar", "falsy", "object", "array"}

\* results of detectDangerousPath for a request path, "null" for a harmless one
PathReasons == {"null", "empty path segment", "dangerous path segment \".\"",
                "dangerous path segment \"..\""}

\* the validators an entry is registered with: none, one of the four, or all four
ValidatorSets == {{}} \cup {{v} : v \in Validators} \cup {Validators}

OptionSets == [validators : ValidatorSets, ignoreUrlParams : BOOLEAN]

\* what the registry answers for (r.method, r.url): the entry of the method's own store with
\* its options, nothing (and whether another method's store matches), or a throw of describePath
LookupResults ==
    {[found |-> "entry", handler |-> "entry", options |-> o, hasOtherMethod |-> FALSE] :
       o \in OptionSets}
    \cup {[found |-> "none", handler |-> "undefined",
            options |-> [validators |-> {}, ignoreUrlParams |-> FALSE],
            hasOtherMethod |-> h] : h \in BOOLEAN}
    \cup {[found |-> "throws", handler |-> "undefined",
            options |-> [validators |-> {}, ignoreUrlParams |-> FALSE],
            hasOtherMethod |-> FALSE]}

NoOptions == [validators |-> {}, ignoreUrlParams |-> FALSE]

NoFailure == [validator |-> "none", outcome |-> "none"]

\* no handler has been invoked
NotInvoked == [handler |-> "none", registered |-> FALSE]

\* no request path has been looked at
NoDangerCall == [called |-> FALSE, has |-> {}, reason |-> "null"]

\* before the request: no header has been tested
NoHeaders == [both |-> FALSE, contentLength |-> [kind |-> "absent", value |-> 0]]

UnsetParams == [params |-> "undefined", pathParams |-> "undefined",
                urlParams |-> "undefined", bodyParams |-> "undefined"]

VARIABLES
    maxBodySize,            \* this.maxBodySize
    callback,               \* this.callback is configured
    rejectDangerousPaths,   \* this.rejectDangerousPaths
    phase,                  \* "idle" before the request, "rejected" by an entry guard, "reading" once the listeners are registered
    completed,              \* closure variable completed
    body,                   \* body.length of the accumulated Buffer
    bodySize,               \* closure variable bodySize
    timeout,                \* closure variable timeout holds an armed timer
    declaredContentLength,  \* closure variable declaredContentLength
    entryHeaders,           \* the headers requestCb tested: both length headers present, and Content-Length as received
    destroyed,              \* req.destroy() has been called
    responses,              \* what has been written to res, by error(), jsonError() or r.jsonResponse
    pc,                     \* where endCb is suspended
    method,                 \* r.method
    contentType,            \* closure variable contentType
    charset,                \* contentTypeArgs.charset
    handler,                \* local handler of endCb: "none", the function of the entry found ("entry" where the registry is left open), or "callback"
    handlerOptions,         \* the options of the resolved entry
    r,                      \* the parameter fields of the request object r
    trace,                  \* pipeline stages started so far, in order
    authView,               \* what the authentication callback saw when it was invoked
    authResult,             \* how the authentication callback resolved, "pending" before
    validated,              \* the validators that returned an object
    validatorFailure,       \* the validator that failed and how, "none" while none has
    handlerCalls,           \* number of invocations of the resolved handler
    reqMethod,              \* req.method of the request that endCb processes
    dangerCall,             \* with rejectDangerousPaths: the segments "", ".", ".." of the request path, and what detectDangerousPath gave
    bodyParamsObject,       \* local bodyParamsObject of endCb: what the body decoded to
    invoked,                \* the function that handler.call(this, r) invoked, and whether the registry held it then
    errorResponseCalls      \* the positions in responses that calls of r.errorResponse wrote

configVars == <<maxBodySize, callback, rejectDangerousPaths>>
readVars == <<phase, completed, body, bodySize, timeout, declaredContentLength, entryHeaders,
              destroyed>>
pipeVars == <<pc, method, contentType, charset, handler, handlerOptions, r, trace,
              authView, authResult, validated, validatorFailure, handlerCalls,
              reqMethod, dangerCall, bodyParamsObject, invoked, errorResponseCalls>>
requestVars == <<configVars, readVars, responses, pipeVars>>

\* the merge of one request's parameter sources (endCb lines 845-853), followed on its own
VARIABLES
    effectiveBodyParams,    \* the body parameters the merge starts from
    safeUrlParams,          \* the query parameters
    normalizedPathParams,   \* the path parameters
    ignoreUrlParams,        \* handlerOptions.ignoreUrlParams === true
    mergedParams,           \* the object being merged into
    paramSources,           \* Map of key -> source that last set it
    warnings,               \* console.warn calls of assignParams, in order
    mergePc                 \* the next assignParams call of the merge

mergeVars == <<effectiveBodyParams, safeUrlParams, normalizedPathParams, ignoreUrlParams,
               mergedParams, paramSources, warnings, mergePc>>

\* the handler registry and the calls made on it, followed on their own
VARIABLES
    requestHandlers,        \* this._requestHandlers: method -> { exact, dynamic }
    calls,                  \* number of requestHandleAdd / requestHandleDelete calls so far
    lastCall,               \* the last registry call or request and what it gave
    latestAdd               \* <<method, template>> -> arguments of the latest add not deleted since

registryVars == <<requestHandlers, calls, lastCall, latestAdd>>

\* One lookup followed from the compilation of the templates to its result.
VARIABLES
    matchTemplates,         \* the template strings registered for GET, in registration order
    matchPath,              \* the request path
    matchCompiled,          \* what compilePathTemplate gave for each template
    matches,                \* what matchCompiledPath gave for each compiled template
    matchResolved,          \* what the handler resolution of endCb gave for GET matchPath
    matchPc                 \* "idle", "compile", "match", "lookup", "done"

matchVars == <<matchTemplates, matchPath, matchCompiled, matches, matchResolved, matchPc>>

\* One upgrade request followed through upgradeCb.
VARIABLES
    debug,                  \* this.debug
    upgradeCallback,        \* this.upgradeCallback is configured: upgradeCb listens for 'upgrade'
    upgradePc,              \* where upgradeCb is: "idle", "auth", "upgrade" (both awaits), "done"
    upgradeR,               \* the request object r of upgradeCb
    socket,                 \* parameter s of upgradeCb: [s: still defined, destroyed: s.destroy() was called]
    upgradeAuth,            \* how the authentication callback resolved, "pending" before
    upgradeRet,             \* how the upgrade handler resolved, "none" if it has not
    upgradeReturn,          \* what upgradeCb returned, "pending" before
    upgradeLog,             \* console.log lines of upgradeCb, in order
    authSaw,                \* r as the authentication callback was given it, and the raw query string of the request
    upgradeSaw              \* r as the upgrade handler was given it

upgradeVars == <<debug, upgradeCallback, upgradePc, upgradeR, socket, upgradeAuth, upgradeRet,
                 upgradeReturn, upgradeLog, authSaw, upgradeSaw>>

vars == <<requestVars, mergeVars, registryVars, matchVars, upgradeVars>>

(* ---- the response sink ---- *)
\* res.headersSent: a response has been written to res
HeadersSent(res) == res # <<>>

\* res.writeHead with the res.write and res.end that follow it: on a res that a response has
\* been written to, writeHead throws ERR_HTTP_HEADERS_SENT and nothing more is written
writeHead(res, fn, code, text) ==
    IF HeadersSent(res) THEN res
    ELSE Append(res, [fn |-> fn, code |-> code, text |-> text])

\* error() writes the response, or throws what res.writeHead throws
error(res, code, text) == writeHead(res, "error", code, text)

jsonError(res, code, message) == writeHead(res, "jsonError", code, message)

\* r.jsonResponse(data, code): res.writeHead(code ? code : 200, headers), then the data
jsonResponse(res, data, code) ==
    writeHead(res, "jsonResponse", IF code = 0 THEN 200 ELSE code, data)

\* an empty object
EmptyObject == <<>>

\* no merge is being followed
MergeIdle ==
    /\ effectiveBodyParams = EmptyObject
    /\ safeUrlParams = EmptyObject
    /\ normalizedPathParams = EmptyObject
    /\ ignoreUrlParams = FALSE
    /\ mergedParams = EmptyObject
    /\ paramSources = EmptyObject
    /\ warnings = <<>>
    /\ mergePc = "idle"

\* no lookup is being followed
MatchIdle ==
    /\ matchTemplates = <<>>
    /\ matchPath = <<>>
    /\ matchCompiled = <<>>
    /\ matches = <<>>
    /\ matchResolved = [result |-> "none"]
    /\ matchPc = "idle"

(* ---- constructor ---- *)
NoCall == [op |-> "none"]

\* no upgrade request has arrived
NoR == [url |-> "undefined", urlParams |-> "undefined", params |-> "undefined",
        bodyParams |-> "undefined", pathParams |-> "undefined", head |-> "undefined",
        s |-> "undefined"]

UpgradeWaiting ==
    /\ upgradePc = "idle"
    /\ upgradeR = NoR
    /\ socket = [s |-> TRUE, destroyed |-> FALSE]
    /\ upgradeAuth = "pending"
    /\ upgradeRet = "none"
    /\ upgradeReturn = "pending"
    /\ upgradeLog = <<>>
    /\ authSaw = [called |-> FALSE, r |-> NoR, query |-> "undefined"]
    /\ upgradeSaw = [called |-> FALSE, r |-> NoR]

\* a server without an upgrade handler
UpgradeIdle ==
    /\ debug = FALSE
    /\ upgradeCallback = FALSE
    /\ UpgradeWaiting

\* the registry of a server constructed without requestHandlers, not yet used
RegistryIdle ==
    /\ requestHandlers = EmptyObject
    /\ calls = 0
    /\ lastCall = NoCall
    /\ latestAdd = EmptyObject

\* no request has arrived
RequestIdle ==
    /\ phase = "idle"
    /\ completed = FALSE
    /\ body = 0
    /\ bodySize = 0
    /\ timeout = FALSE
    /\ declaredContentLength = UndefinedLength
    /\ entryHeaders = NoHeaders
    /\ destroyed = FALSE
    /\ responses = <<>>
    /\ pc = "none"
    /\ method = "unset"
    /\ contentType = "undefined"
    /\ charset = "undefined"
    /\ handler = "none"
    /\ handlerOptions = NoOptions
    /\ r = UnsetParams
    /\ trace = <<>>
    /\ authView = [called |-> FALSE, r |-> UnsetParams, trace |-> <<>>]
    /\ authResult = "pending"
    /\ validated = {}
    /\ validatorFailure = NoFailure
    /\ handlerCalls = 0
    /\ reqMethod = "unset"
    /\ dangerCall = NoDangerCall
    /\ bodyParamsObject = "undefined"
    /\ invoked = NotInvoked
    /\ errorResponseCalls = {}

Init ==
    /\ maxBodySize \in {0, MaxBodySizeBound}
    /\ callback \in BOOLEAN
    /\ rejectDangerousPaths \in BOOLEAN
    /\ RequestIdle
    /\ MergeIdle
    /\ RegistryIdle
    /\ MatchIdle
    /\ UpgradeIdle

(* ---- path strings ---- *)
\* A path or template string is a sequence of tokens: "/" for the separator character and
\* a word for each maximal run of other characters.
startsWith(str, token) == Len(str) > 0 /\ str[1] = token

endsWith(str, token) == Len(str) > 0 /\ str[Len(str)] = token

\* str.slice(0, -1) of a string whose last character is a "/"
SliceOffLast(str) == SubSeq(str, 1, Len(str) - 1)

\* str.slice(1) of a string whose first character is a "/"
SliceOffFirst(str) == Tail(str)

RECURSIVE SplitFrom(_, _, _, _)
SplitFrom(str, i, current, parts) ==
    IF i > Len(str) THEN Append(parts, current)
    ELSE IF str[i] = "/" THEN SplitFrom(str, i + 1, "", Append(parts, current))
    ELSE SplitFrom(str, i + 1, current \o str[i], parts)

\* str.split('/')
Split(str) == SplitFrom(str, 1, "", <<>>)

(* ---- detectDangerousPath ---- *)
\* str.includes(sub)
includes(str, sub) ==
    \E i \in 1..(Len(str) - Len(sub) + 1) : SubSeq(str, i, i + Len(sub) - 1) = sub

\* str.endsWith(sub) for a string sub of several tokens
endsWithString(str, sub) ==
    Len(str) >= Len(sub) /\ SubSeq(str, Len(str) - Len(sub) + 1, Len(str)) = sub

\* detectDangerousPath without its test for ".." segments
detectDangerousPathWithoutDotDot(path) ==
    IF path = <<"/">> THEN "null"
    ELSE IF includes(path, <<"/", "/">>) THEN "empty path segment"
    ELSE IF path = <<"/", ".">> \/ endsWithString(path, <<"/", ".">>)
            \/ includes(path, <<"/", ".", "/">>)
    THEN "dangerous path segment \".\""
    ELSE "null"

detectDangerousPath(path) ==
    IF path = <<"/">> THEN "null"
    ELSE IF includes(path, <<"/", "/">>) THEN "empty path segment"
    ELSE IF path = <<"/", ".">> \/ endsWithString(path, <<"/", ".">>)
            \/ includes(path, <<"/", ".", "/">>)
    THEN "dangerous path segment \".\""
    ELSE IF path = <<"/", "..">> \/ endsWithString(path, <<"/", "..">>)
            \/ includes(path, <<"/", "..", "/">>)
    THEN "dangerous path segment \"..\""
    ELSE "null"

\* the segments of a path between its first slash and its end, a slash at the very end
\* not counting as the start of a segment
PathSegments(path) ==
    IF path = <<"/">> THEN <<>>
    ELSE Split(SliceOffFirst(IF endsWith(path, "/") THEN SliceOffLast(path) ELSE path))

\* which of the segments "", "." and ".." a path contains
DangerousSegments(path) ==
    {PathSegments(path)[i] : i \in 1..Len(PathSegments(path))} \cap {"", ".", ".."}

\* the detectDangerousPath call of endCb: which of these segments its argument has, and
\* the reason it returned
DangerCall(path) ==
    [called |-> TRUE, has |-> DangerousSegments(path), reason |-> detectDangerousPath(path)]

\* a request that endCb answers before it comes to call detectDangerousPath
PathSeen(path) == [called |-> FALSE, has |-> DangerousSegments(path), reason |-> "null"]

\* the paths r.url takes: harmless ones, some of them with dots next to a slash, and ones
\* with an empty, a "." or a ".." segment at the start, in the middle and at the end
UrlPaths ==
    {<<"/">>, <<"/", "a">>, <<"/", "a", "/">>, <<"/", ".a">>, <<"/", "a.">>, <<"/", "...">>,
     <<"/", "a", "/", "..a">>,
     <<"/", "/">>, <<"/", "/", "a">>, <<"/", "a", "/", "/", "a">>, <<"/", "a", "/", "/">>,
     <<"/", ".">>, <<"/", ".", "/", "a">>, <<"/", "a", "/", ".", "/", "a">>, <<"/", "a", "/", ".">>,
     <<"/", "..">>, <<"/", "..", "/", "a">>, <<"/", "a", "/", "..", "/", "a">>,
     <<"/", "a", "/", "..">>, <<"/", "a", "/", "..", "/">>, <<"/", "/", "..">>}

(* ---- requestCb: entry guards, then arm the timer and register the listeners ---- *)
\* the maxBodySize test, off by one
ExceedsMaxBodySizeOffByOne(n) == (maxBodySize # 0) /\ (n > maxBodySize + 1)

\* the maxBodySize test of the entry guard and of dataCb: this.maxBodySize && (n > this.maxBodySize)
ExceedsMaxBodySize(n) == (maxBodySize # 0) /\ (n > maxBodySize)

\* BadContentLength without the test for a negative number
BadContentLengthSignIgnored(h) == h.kind = "nan"

\* !Number.isSafeInteger(cl) || cl < 0, for cl = parseInt(header, 10)
BadContentLength(h) == (h.kind = "nan") \/ (h.value < 0)

\* requestCb without its setTimeout
RequestCbUnarmed ==
    /\ phase = "idle"
    /\ \E te \in BOOLEAN, cl \in ContentLengthHeaders :
        /\ entryHeaders' = [both |-> te /\ cl.kind # "absent", contentLength |-> cl]
        /\ IF te /\ cl.kind # "absent"
           THEN /\ responses' = error(responses, 400, "Both Transfer-Encoding and Content-Length defined.")
                /\ phase' = "rejected"
                /\ UNCHANGED <<timeout, declaredContentLength, destroyed>>
           ELSE IF cl.kind # "absent" /\ BadContentLength(cl)
           THEN /\ responses' = error(responses, 400, "Bad Content-Length header.")
                /\ phase' = "rejected"
                /\ UNCHANGED <<timeout, declaredContentLength, destroyed>>
           ELSE IF cl.kind # "absent" /\ ExceedsMaxBodySize(cl.value)
           THEN /\ responses' = error(responses, 413, "Request body too large.")
                /\ phase' = "rejected"
                /\ declaredContentLength' = cl.value
                /\ destroyed' = TRUE
                /\ UNCHANGED timeout
           ELSE /\ declaredContentLength' = (IF cl.kind = "absent" THEN UndefinedLength ELSE cl.value)
                /\ phase' = "reading"
                /\ UNCHANGED <<responses, destroyed, timeout>>
    /\ UNCHANGED <<configVars, completed, body, bodySize, pipeVars>>
    /\ UNCHANGED <<mergeVars, registryVars, matchVars, upgradeVars>>

RequestCb ==
    /\ phase = "idle"
    /\ \E te \in BOOLEAN, cl \in ContentLengthHeaders :
        /\ entryHeaders' = [both |-> te /\ cl.kind # "absent", contentLength |-> cl]
        /\ IF te /\ cl.kind # "absent"
           THEN /\ responses' = error(responses, 400, "Both Transfer-Encoding and Content-Length defined.")
                /\ phase' = "rejected"
                /\ UNCHANGED <<timeout, declaredContentLength, destroyed>>
           ELSE IF cl.kind # "absent" /\ BadContentLength(cl)
           THEN /\ responses' = error(responses, 400, "Bad Content-Length header.")
                /\ phase' = "rejected"
                /\ UNCHANGED <<timeout, declaredContentLength, destroyed>>
           ELSE IF cl.kind # "absent" /\ ExceedsMaxBodySize(cl.value)
           THEN /\ responses' = error(responses, 413, "Request body too large.")
                /\ phase' = "rejected"
                /\ declaredContentLength' = cl.value
                /\ destroyed' = TRUE
                /\ UNCHANGED timeout
           ELSE /\ declaredContentLength' = (IF cl.kind = "absent" THEN UndefinedLength ELSE cl.value)
                /\ timeout' = TRUE
                /\ phase' = "reading"
                /\ UNCHANGED <<responses, destroyed>>
    /\ UNCHANGED <<configVars, completed, body, bodySize, pipeVars>>
    /\ UNCHANGED <<mergeVars, registryVars, matchVars, upgradeVars>>

(***************************************************************************)
(* The stream callbacks.  Once registered they are written to tolerate     *)
(* delivery at any time and any number of times, each returning at once    *)
(* when completed is set; the model delivers data, end, error and timeout  *)
(* events in every order for as long as the request exists.                *)
(***************************************************************************)
(* ---- dataCb ---- *)
\* dataCb without its completed test
DataCbUnguarded ==
    /\ phase = "reading"
    /\ \E len \in 1..MaxChunk :
        /\ bodySize + len <= MaxTotal
        /\ bodySize' = bodySize + len
        /\ body' = body + len
    /\ UNCHANGED <<configVars, phase, completed, timeout, destroyed, responses,
                   declaredContentLength, entryHeaders, pipeVars>>
    /\ UNCHANGED <<mergeVars, registryVars, matchVars, upgradeVars>>

\* the Content-Length test of dataCb, off by one
ExceedsContentLengthOffByOne(n) ==
    declaredContentLength # UndefinedLength /\ n > declaredContentLength + 1

\* declaredContentLength !== undefined && (bodySize > declaredContentLength)
ExceedsContentLength(n) ==
    declaredContentLength # UndefinedLength /\ n > declaredContentLength

DataCb ==
    /\ phase = "reading"
    /\ IF completed
       THEN UNCHANGED <<completed, body, bodySize, timeout, destroyed, responses>>
       ELSE \E len \in 1..MaxChunk :
                /\ bodySize + len <= MaxTotal
                /\ bodySize' = bodySize + len
                /\ IF ExceedsContentLength(bodySize')
                   THEN /\ completed' = TRUE
                        /\ timeout' = FALSE
                        /\ responses' = error(responses, 400, "Request body longer than Content-Length.")
                        /\ destroyed' = TRUE
                        /\ UNCHANGED body
                   ELSE IF ExceedsMaxBodySize(bodySize')
                   THEN /\ completed' = TRUE
                        /\ timeout' = FALSE
                        /\ responses' = error(responses, 413, "Request body too large.")
                        /\ destroyed' = TRUE
                        /\ UNCHANGED body
                   ELSE /\ body' = body + len
                        /\ UNCHANGED <<completed, timeout, destroyed, responses>>
    /\ UNCHANGED <<configVars, phase, declaredContentLength, entryHeaders, pipeVars>>
    /\ UNCHANGED <<mergeVars, registryVars, matchVars, upgradeVars>>

(* ---- errorCb ---- *)
\* errorCb without its completed test
ErrorCbUnguarded ==
    /\ phase = "reading"
    /\ completed' = TRUE
    /\ timeout' = FALSE
    /\ responses' = error(responses, 400, "Error occured while reading the request data.")
    /\ UNCHANGED <<configVars, phase, body, bodySize, declaredContentLength, entryHeaders, destroyed, pipeVars>>
    /\ UNCHANGED <<mergeVars, registryVars, matchVars, upgradeVars>>

ErrorCb ==
    /\ phase = "reading"
    /\ IF completed
       THEN UNCHANGED <<completed, timeout, responses>>
       ELSE /\ completed' = TRUE
            /\ timeout' = FALSE
            /\ responses' = error(responses, 400, "Error occured while reading the request data.")
    /\ UNCHANGED <<configVars, phase, body, bodySize, declaredContentLength, entryHeaders, destroyed, pipeVars>>
    /\ UNCHANGED <<mergeVars, registryVars, matchVars, upgradeVars>>

(* ---- timeoutCb ---- *)
\* timeoutCb that answers 408 but leaves the request READING
TimeoutCbNotTerminal ==
    /\ phase = "reading"
    /\ IF completed
       THEN UNCHANGED <<timeout, responses>>
       ELSE /\ timeout' = FALSE
            /\ responses' = error(responses, 408, "Timeout occured while reading the request data.")
    /\ UNCHANGED <<configVars, phase, completed, body, bodySize, declaredContentLength, entryHeaders, destroyed,
                   pipeVars>>
    /\ UNCHANGED <<mergeVars, registryVars, matchVars, upgradeVars>>

\* timeoutCb that does not look at completed
TimeoutCbUnguarded ==
    /\ phase = "reading"
    /\ timeout' = FALSE
    /\ completed' = TRUE
    /\ responses' = error(responses, 408, "Timeout occured while reading the request data.")
    /\ UNCHANGED <<configVars, phase, body, bodySize, declaredContentLength, entryHeaders, destroyed, pipeVars>>
    /\ UNCHANGED <<mergeVars, registryVars, matchVars, upgradeVars>>

TimeoutCb ==
    /\ phase = "reading"
    /\ IF completed
       THEN UNCHANGED <<completed, timeout, responses>>
       ELSE /\ timeout' = FALSE
            /\ completed' = TRUE
            /\ responses' = error(responses, 408, "Timeout occured while reading the request data.")
    /\ UNCHANGED <<configVars, phase, body, bodySize, declaredContentLength, entryHeaders, destroyed, pipeVars>>
    /\ UNCHANGED <<mergeVars, registryVars, matchVars, upgradeVars>>

(* ---- endCb: the synchronous part, up to the await of the authentication callback ---- *)
\* parseContentType on the header kinds the model distinguishes: null for an unparsable header
parseContentType(h) ==
    IF h.kind = "ok" THEN [ok |-> TRUE, type |-> h.type, charset |-> h.charset]
    ELSE [ok |-> FALSE, type |-> "undefined", charset |-> "undefined"]

\* the request object with params already an (empty) object when authentication runs
InitialRequestParamsMerged(req) ==
    [req EXCEPT !.bodyParams = "undefined", !.urlParams = "undefined",
                !.pathParams = "undefined", !.params = "set"]

\* r.bodyParams = r.urlParams = r.pathParams = r.params = undefined
InitialRequestParams(req) ==
    [req EXCEPT !.bodyParams = "undefined", !.urlParams = "undefined",
                !.pathParams = "undefined", !.params = "undefined"]

\* the Content-Length test of endCb, rejecting only bodies that are too long
LengthMismatchOnlyLonger(len) ==
    declaredContentLength # UndefinedLength /\ len > declaredContentLength

\* declaredContentLength !== undefined && (body.length !== declaredContentLength)
LengthMismatch(len) ==
    declaredContentLength # UndefinedLength /\ len # declaredContentLength

\* switch (req.method) that lets every other method through the GET and DELETE case
MethodCaseWithoutDefault(m) ==
    IF m \in {"POST", "PUT"} THEN "POST PUT" ELSE "GET DELETE"

\* the case of switch (req.method) that a method takes
MethodCase(m) ==
    IF m \in {"POST", "PUT"} THEN "POST PUT"
    ELSE IF m \in {"GET", "DELETE"} THEN "GET DELETE"
    ELSE "default"

\* the path of a request that endCb answers before the dangerous path check; which
\* segments a path has is followed for servers that have the check enabled
SeesPath ==
    \E path \in UrlPaths :
        dangerCall' = (IF rejectDangerousPaths THEN PathSeen(path) ELSE NoDangerCall)

\* the answer to an unrouted request, written once the authentication callback was invoked
UnroutedAfterAuth(match) ==
    /\ authView' = [called |-> TRUE, r |-> r', trace |-> trace]
    /\ trace' = Append(trace, "auth")
    /\ responses' = (IF match.hasOtherMethod
                     THEN jsonError(responses, 405, "Method Not Allowed")
                     ELSE jsonError(responses, 404, "Not Found"))
    /\ pc' = "done"
    /\ UNCHANGED <<handler, handlerOptions, authResult, errorResponseCalls, validated, validatorFailure>>

\* no entry matched and there is no fallback callback: 405 when another method has a
\* handler for the path, 404 otherwise, and endCb returns
Unrouted(match) ==
    /\ responses' = (IF match.hasOtherMethod
                     THEN jsonError(responses, 405, "Method Not Allowed")
                     ELSE jsonError(responses, 404, "Not Found"))
    /\ pc' = "done"
    /\ UNCHANGED <<handler, handlerOptions, trace, authView, authResult, errorResponseCalls, validated,
                   validatorFailure>>

(* ---- the callbacks that are given r ---- *)
\* what a callback that is given r calls on it in one run, up to an await or up to its end:
\* nothing, r.errorResponse(403, "no"), or r.jsonResponse(data) with no code
CallbackCalls ==
    {<<>>,
     <<[fn |-> "errorResponse", code |-> 403, text |-> "no"]>>,
     <<[fn |-> "jsonResponse", code |-> 0, text |-> "data"]>>}

\* the run of a callback from its invocation up to its first await: the calls it makes on
\* r, and whether it then throws instead of returning a promise
SyncParts == [written : CallbackCalls, throws : BOOLEAN]

\* r.errorResponse = (code, detail) => error(res, code, detail)
errorResponse(p, code, detail) ==
    [p EXCEPT !.responses = error(@, code, detail),
              !.errorResponseCalls = IF HeadersSent(p.responses) THEN @
                                     ELSE @ \cup {Len(p.responses) + 1}]

\* the calls a callback makes on r, in turn; a call on a res that has been written to
\* throws ERR_HTTP_HEADERS_SENT into the callback
RECURSIVE Called(_, _)
Called(p, written) ==
    IF written = <<>> THEN p
    ELSE Called(IF Head(written).fn = "errorResponse"
                THEN errorResponse(p, Head(written).code, Head(written).text)
                ELSE [p EXCEPT !.responses = jsonResponse(@, Head(written).text, Head(written).code)],
                Tail(written))

\* the catch of endCb: error(res, 500, ...) in a try of its own, whose throw is dropped
Catch(p) ==
    [p EXCEPT !.pc = "done", !.responses = error(@, 500, "Request handler fails to execute.")]

\* req.method of the requests that are followed: those the lookup is given for
MethodsOf(lookup) == {key[1] : key \in DOMAIN lookup}

\* endCb, given what the lookup of the registry answers for a method and a path
EndCbWith(lookup) ==
    /\ phase = "reading"
    /\ IF completed
       THEN UNCHANGED <<completed, timeout, responses, pipeVars>>
       ELSE
         /\ completed' = TRUE
         /\ timeout' = FALSE
         /\ bodyParamsObject' = bodyParamsObject
         /\ invoked' = invoked
         /\ IF LengthMismatch(body)
            THEN /\ responses' = error(responses, 400, "Request body length does not match Content-Length.")
                 /\ pc' = "done"
                 /\ reqMethod' \in MethodsOf(lookup)
                 /\ UNCHANGED <<method, contentType, charset, handler, handlerOptions, r, trace,
                                authView, authResult, errorResponseCalls, validated, validatorFailure, handlerCalls>>
                 /\ SeesPath
            ELSE \E ct \in ContentTypeHeaders :
              IF ct.kind # "absent" /\ ~parseContentType(ct).ok
              THEN /\ responses' = error(responses, 400, "Unable to parse content-type.")
                   /\ pc' = "done"
                   /\ reqMethod' \in MethodsOf(lookup)
                   /\ UNCHANGED <<method, contentType, charset, handler, handlerOptions, r, trace,
                                  authView, authResult, errorResponseCalls, validated, validatorFailure, handlerCalls>>
                   /\ SeesPath
              ELSE
                /\ contentType' = (IF ct.kind = "absent" THEN "undefined" ELSE parseContentType(ct).type)
                /\ charset' = (IF ct.kind = "absent" THEN "undefined" ELSE parseContentType(ct).charset)
                /\ \E m \in MethodsOf(lookup), hasQuery \in BOOLEAN :
                   IF MethodCase(m) = "POST PUT" /\ hasQuery
                   THEN /\ responses' = error(responses, 400, "URL for POST or PUT must not contain query parameters.")
                        /\ pc' = "done"
                        /\ reqMethod' = m
                        /\ SeesPath
                        /\ UNCHANGED <<method, handler, handlerOptions, r, trace, authView, authResult, errorResponseCalls, validated, validatorFailure, handlerCalls>>
                   ELSE IF MethodCase(m) = "GET DELETE" /\ body > 0
                   THEN /\ responses' = error(responses, 400, IF m = "GET" THEN "Empty body required for GET requests."
                                                                ELSE "Empty body required for DELETE requests.")
                        /\ pc' = "done"
                        /\ reqMethod' = m
                        /\ SeesPath
                        /\ UNCHANGED <<method, handler, handlerOptions, r, trace, authView, authResult, errorResponseCalls, validated, validatorFailure, handlerCalls>>
                   ELSE IF MethodCase(m) = "default"
                   THEN /\ responses' = error(responses, 405, "Only GET, POST, PUT, and DELETE are allowed.")
                        /\ pc' = "done"
                        /\ reqMethod' = m
                        /\ SeesPath
                        /\ UNCHANGED <<method, handler, handlerOptions, r, trace, authView, authResult, errorResponseCalls, validated, validatorFailure, handlerCalls>>
                   ELSE
                     /\ method' = m
                     /\ reqMethod' = m
                     /\ \E path \in UrlPaths :
                        IF rejectDangerousPaths /\ detectDangerousPath(path) # "null"
                        THEN /\ responses' = error(responses, 400, detectDangerousPath(path))
                             /\ pc' = "done"
                             /\ dangerCall' = DangerCall(path)
                             /\ UNCHANGED <<handler, handlerOptions, r, trace, authView, authResult, errorResponseCalls, validated, validatorFailure, handlerCalls>>
                        ELSE
                          /\ r' = InitialRequestParams(r)
                          /\ dangerCall' = (IF rejectDangerousPaths THEN DangerCall(path)
                                            ELSE NoDangerCall)
                          /\ UNCHANGED handlerCalls
                          /\ \E match \in lookup[m, path] :
                             IF match.found = "throws"
                             THEN /\ responses' = error(responses, 500, "Request handler fails to execute.")
                                  /\ pc' = "done"
                                  /\ UNCHANGED <<handler, handlerOptions, trace, authView, authResult, errorResponseCalls, validated, validatorFailure>>
                             ELSE IF match.found = "none" /\ ~callback
                             THEN Unrouted(match)
                             ELSE
                               /\ handler' = (IF match.found = "entry" THEN match.handler ELSE "callback")
                               /\ handlerOptions' = (IF match.found = "entry" THEN match.options ELSE NoOptions)
                               /\ authView' = [called |-> TRUE, r |-> r', trace |-> trace]
                               /\ trace' = Append(trace, "auth")
                               /\ \E sync \in SyncParts :
                                    LET p == Called([pc |-> pc, responses |-> responses,
                                                     errorResponseCalls |-> errorResponseCalls],
                                                    sync.written)
                                    IN IF sync.throws
                                       THEN /\ authResult' = "throws"
                                            /\ pc' = "done"
                                            /\ responses' = Catch(p).responses
                                            /\ errorResponseCalls' = p.errorResponseCalls
                                       ELSE /\ pc' = "auth"
                                            /\ responses' = p.responses
                                            /\ errorResponseCalls' = p.errorResponseCalls
                                            /\ UNCHANGED authResult
                               /\ UNCHANGED <<validated, validatorFailure>>
    /\ UNCHANGED <<configVars, phase, body, bodySize, declaredContentLength, entryHeaders, destroyed>>
    /\ UNCHANGED <<mergeVars, registryVars, matchVars, upgradeVars>>

\* the registry left open: the lookup answers anything
AnyLookup == [m \in Methods, path \in UrlPaths |-> LookupResults]

EndCb == EndCbWith(AnyLookup)

(* ---- endCb: the stages after authentication, each run up to the next await ---- *)
\* the variables a stage changes, as one record
Pipe == [pc |-> pc, responses |-> responses, r |-> r, trace |-> trace,
         handlerCalls |-> handlerCalls, validated |-> validated,
         bodyParamsObject |-> bodyParamsObject, invoked |-> invoked,
         errorResponseCalls |-> errorResponseCalls]

\* the value a stage works on: the result of its validator once that returned an object,
\* the value the framework computed otherwise
Effective(p, validator, computed) ==
    IF validator \in p.validated THEN "validator result" ELSE computed

\* error(res, code, text); return; inside the try of endCb: a throw of error() goes to the
\* catch of endCb
Fail(p, code, text) ==
    IF HeadersSent(p.responses)
    THEN Catch(p)
    ELSE [p EXCEPT !.pc = "done", !.responses = error(@, code, text)]

Stage(p, name) == [p EXCEPT !.trace = Append(@, name)]

\* some entry of the registry holds the function
StillRegistered(h) ==
    \E m \in DOMAIN requestHandlers :
       \/ \E t \in DOMAIN requestHandlers[m].exact : requestHandlers[m].exact[t].handler = h
       \/ \E i \in 1..Len(requestHandlers[m].dynamic) : requestHandlers[m].dynamic[i].handler = h

\* a call that goes to the function only if the registry still holds it
HandlerToCallIfRegistered ==
    IF handler = "callback" \/ StillRegistered(handler) THEN handler ELSE "none"

\* the function of handler.call(this, r): the local handler, set at the lookup
HandlerToCall == handler

\* r.params is set; r.bodyParams and r.pathParams are published, r.urlParams is deleted
\* under ignoreUrlParams; then handler.call(this, r)
StageHandler(p) ==
    LET q == [p EXCEPT !.r.params = Effective(p, "params", "merged"),
                       !.r.bodyParams = Effective(p, "body", "decoded body"),
                       !.r.pathParams = Effective(p, "path", "matched path"),
                       !.r.urlParams = IF handlerOptions.ignoreUrlParams THEN "undefined" ELSE @]
    IN [Stage(q, "handler") EXCEPT !.pc = "handler"]

\* the merge going on to the handler without running the paramsValidator
StageMergeUnvalidated(p) ==
    StageHandler([Stage(p, "merge") EXCEPT
                    !.r.urlParams = IF handlerOptions.ignoreUrlParams THEN @
                                ELSE Effective(p, "url", "parsed query")])

\* assignParams body, query, path into mergedParams, then the paramsValidator
StageMerge(p) ==
    LET q == [Stage(p, "merge") EXCEPT
                !.r.urlParams = IF handlerOptions.ignoreUrlParams THEN @
                                ELSE Effective(p, "url", "parsed query")]
    IN IF "params" \in handlerOptions.validators
       THEN [Stage(q, "paramsValidator") EXCEPT !.pc = "vParams"]
       ELSE StageHandler(q)

\* the bodyParamsValidator, on the decoded body or on an empty object
StageBodyValidatorAfterMerge(p) ==
    IF "body" \in handlerOptions.validators
    THEN [Stage(Stage(p, "merge"), "bodyParamsValidator") EXCEPT !.pc = "vBody"]
    ELSE StageMerge(p)

StageBodyValidator(p) ==
    IF "body" \in handlerOptions.validators
    THEN [Stage(p, "bodyParamsValidator") EXCEPT !.pc = "vBody"]
    ELSE StageMerge(p)

\* body decoding for POST and PUT by media type; json is what JSON.parse makes of the body
\* body decoding that takes every media type other than application/json as a form body
StageBodyAnyMediaType(p, json) ==
    IF method \in {"POST", "PUT"}
    THEN LET q == Stage(p, "decodeBody")
         IN IF contentType = "application/json"
            THEN IF charset \notin {"undefined", "utf-8"}
                 THEN Fail(q, 400, "Bad charset for JSON content type.")
                 ELSE IF json \notin {"object", "array"}
                 THEN Fail([q EXCEPT !.bodyParamsObject = json], 400,
                           "Unable to parse JSON query parameters.")
                 ELSE StageBodyValidator([q EXCEPT !.bodyParamsObject = json])
            ELSE StageBodyValidator([q EXCEPT !.bodyParamsObject = "form"])
    ELSE StageBodyValidator(p)

StageBody(p, json) ==
    IF method \in {"POST", "PUT"}
    THEN LET q == Stage(p, "decodeBody")
         IN IF contentType \in {"application/x-www-form-urlencoded", "application/www-form-urlencoded"}
            THEN StageBodyValidator([q EXCEPT !.bodyParamsObject = "form"])
            ELSE IF contentType = "application/json"
            THEN IF charset \notin {"undefined", "utf-8"}
                 THEN Fail(q, 400, "Bad charset for JSON content type.")
                 ELSE IF json \notin {"object", "array"}
                 THEN Fail([q EXCEPT !.bodyParamsObject = json], 400,
                           "Unable to parse JSON query parameters.")
                 ELSE StageBodyValidator([q EXCEPT !.bodyParamsObject = json])
            ELSE Fail(q, 400, "POST or PUT body must be in JSON or www-form-urlencoded format.")
    ELSE StageBodyValidator(p)

\* parseQuery of the raw query string and the urlParamsValidator, unless ignoreUrlParams
StageUrl(p, json) ==
    IF ~handlerOptions.ignoreUrlParams
    THEN LET q == Stage(p, "parseQuery")
         IN IF "url" \in handlerOptions.validators
            THEN [Stage(q, "urlParamsValidator") EXCEPT !.pc = "vUrl"]
            ELSE StageBody(q, json)
    ELSE StageBody(p, json)

\* the pathParamsValidator on the path parameters of the matched entry
StagePath(p, json) ==
    IF "path" \in handlerOptions.validators
    THEN [Stage(p, "pathParamsValidator") EXCEPT !.pc = "vPath"]
    ELSE StageUrl(p, json)

\* what a validator can do: return an object (arrays included), return anything else,
\* throw or reject with an error that has a message, or with one that has none
ValidatorOutcomes == {"object", "nonobject", "throws", "throws bare"}

\* the description runValidator is called with
Description(validator) ==
    CASE validator = "path" -> "path parameters"
      [] validator = "url" -> "URL parameters"
      [] validator = "body" -> "body parameters"
      [] validator = "params" -> "request parameters"

ValidatorFailureSwapped(p, outcome, description) ==
    CASE outcome = "nonobject" -> Fail(p, 400, description \o " validator must return an object.")
      [] outcome = "throws" -> Fail(p, 500, "err.message")
      [] outcome = "throws bare" -> Fail(p, 500, "Invalid " \o description \o ".")

\* runValidator: a non-object result is a 500, a throw or rejection a 400 with the error's
\* message, or with "Invalid <description>." when the error has none.  On a res that has
\* been written to, the error() of the try throws into the catch of runValidator, whose
\* error() throws in turn: runValidator rejects, into the catch of endCb.
ValidatorFailure(p, outcome, description) ==
    CASE outcome = "nonobject" -> Fail(p, 500, description \o " validator must return an object.")
      [] outcome = "throws" -> Fail(p, 400, "err.message")
      [] outcome = "throws bare" -> Fail(p, 400, "Invalid " \o description \o ".")

\* the validator whose result endCb awaits at a suspension point
ValidatorAt(at) ==
    CASE at = "vPath" -> "path"
      [] at = "vUrl" -> "url"
      [] at = "vBody" -> "body"
      [] at = "vParams" -> "params"

\* validation.value takes the place of the value that was validated
Accepted(p, validator) == [p EXCEPT !.validated = @ \cup {validator}]

SetPipe(p) ==
    /\ pc' = p.pc
    /\ responses' = p.responses
    /\ r' = p.r
    /\ trace' = p.trace
    /\ handlerCalls' = p.handlerCalls
    /\ bodyParamsObject' = p.bodyParamsObject
    /\ invoked' = p.invoked
    /\ errorResponseCalls' = p.errorResponseCalls

\* handler.call(this, r): sync is the run of the handler up to its first await; a throw of
\* it goes to the catch of endCb
HandlerCall(p, sync) ==
    LET called == Called([p EXCEPT !.handlerCalls = @ + 1,
                                   !.invoked = [handler |-> HandlerToCall,
                                                registered |-> StillRegistered(handler)]],
                         sync.written)
    IN IF sync.throws THEN Catch(called) ELSE called

\* endCb runs on from an await to the next one: to that of a validator, or through
\* handler.call(this, r) to that of the handler, or to its end
RunOn(p) ==
    IF p.pc = "handler"
    THEN \E q \in {HandlerCall(p, sync) : sync \in SyncParts} : SetPipe(q)
    ELSE SetPipe(p)

\* what JSON.parse makes of the body, where endCb comes to parse it
Parsed ==
    IF method \in {"POST", "PUT"} /\ contentType = "application/json"
    THEN JsonKinds(body) ELSE {"undefined"}

\* the authentication result tested as (auth !== undefined): a falsy false goes on
AuthResolveLax ==
    /\ pc = "auth"
    /\ \E auth \in {"truthy", "falsy", "throws"} :
        /\ authResult' = auth
        /\ IF auth \in {"truthy", "falsy"}
           THEN \E q \in {StagePath(Pipe, json) : json \in Parsed} : RunOn(q)
           ELSE SetPipe(Catch(Pipe))
    /\ UNCHANGED <<configVars, readVars, reqMethod, dangerCall, method, contentType, charset,
                   handler, handlerOptions,
                   authView, validated, validatorFailure>>
    /\ UNCHANGED <<mergeVars, registryVars, matchVars, upgradeVars>>

\* the authentication callback settles: truthy, falsy, or a throw / rejection, after the
\* calls it made on r since its first await
AuthResolve ==
    /\ pc = "auth"
    /\ \E auth \in {"truthy", "falsy", "throws"} :
        /\ authResult' = auth
        /\ IF auth = "truthy"
           THEN \E q \in {StagePath(Pipe, json) : json \in Parsed} : RunOn(q)
           ELSE IF auth = "falsy"
           THEN SetPipe([Pipe EXCEPT !.pc = "done"])
           ELSE SetPipe(Catch(Pipe))
    /\ UNCHANGED <<configVars, readVars, reqMethod, dangerCall, method, contentType, charset,
                   handler, handlerOptions,
                   authView, validated, validatorFailure>>
    /\ UNCHANGED <<mergeVars, registryVars, matchVars, upgradeVars>>

\* a validator settles: an object, something else, or a throw / rejection; validators are
\* given the value alone
ValidatorResolve ==
    /\ pc \in {"vPath", "vUrl", "vBody", "vParams"}
    /\ \E outcome \in ValidatorOutcomes :
      /\ validated' = (IF outcome = "object" THEN validated \cup {ValidatorAt(pc)} ELSE validated)
      /\ validatorFailure' = (IF outcome = "object" THEN validatorFailure
                              ELSE [validator |-> ValidatorAt(pc), outcome |-> outcome])
      /\ IF outcome # "object"
         THEN SetPipe(ValidatorFailure(Pipe, outcome, Description(ValidatorAt(pc))))
         ELSE CASE pc = "vPath" -> \E q \in {StageUrl(Accepted(Pipe, "path"), json) : json \in Parsed} :
                                      RunOn(q)
                [] pc = "vUrl" -> \E q \in {StageBody(Accepted(Pipe, "url"), json) : json \in Parsed} :
                                     RunOn(q)
                [] pc = "vBody" -> RunOn(StageMerge(Accepted(Pipe, "body")))
                [] pc = "vParams" -> RunOn(StageHandler(Accepted(Pipe, "params")))
    /\ UNCHANGED <<configVars, readVars, reqMethod, dangerCall, method, contentType, charset,
                   handler, handlerOptions,
                   authView, authResult>>
    /\ UNCHANGED <<mergeVars, registryVars, matchVars, upgradeVars>>

\* the handler settles: it returns, or it throws / rejects into the catch of endCb, after
\* the calls it made on r since its first await
HandlerResolve ==
    /\ pc = "handler"
    /\ \E outcome \in {"returns", "throws"} :
        SetPipe(IF outcome = "returns" THEN [Pipe EXCEPT !.pc = "done"] ELSE Catch(Pipe))
    /\ UNCHANGED <<configVars, readVars, reqMethod, dangerCall, method, contentType, charset,
                   handler, handlerOptions,
                   authView, authResult, validated, validatorFailure>>
    /\ UNCHANGED <<mergeVars, registryVars, matchVars, upgradeVars>>

\* a callback that was given r (the authentication callback and, once invoked, the handler)
\* writes a response in a turn of its own, after an await of its own or from a timer it set:
\* while endCb awaits it or a validator, or after it has settled; on a res that has been
\* written to the call throws into the callback and writes nothing
CallbackWrite ==
    /\ authView.called
    /\ \E written \in CallbackCalls \ {<<>>} :
         LET p == Called([responses |-> responses, errorResponseCalls |-> errorResponseCalls],
                         written)
         IN /\ responses' = p.responses
            /\ errorResponseCalls' = p.errorResponseCalls
    /\ UNCHANGED <<configVars, readVars, pc, method, contentType, charset, handler, handlerOptions,
                   r, trace, authView, authResult, validated, validatorFailure, handlerCalls,
                   reqMethod, dangerCall, bodyParamsObject, invoked>>
    /\ UNCHANGED <<mergeVars, registryVars, matchVars, upgradeVars>>

Next ==
    \/ RequestCb
    \/ DataCb
    \/ EndCb
    \/ ErrorCb
    \/ TimeoutCb
    \/ AuthResolve
    \/ ValidatorResolve
    \/ HandlerResolve
    \/ CallbackWrite

Spec == Init /\ [][Next]_vars

\* The reading of a request, up to the await of the authentication callback: the steps
\* that follow touch neither the timer nor completed.
ReadNext ==
    \/ RequestCb
    \/ DataCb
    \/ EndCb
    \/ ErrorCb
    \/ TimeoutCb

\* setTimeout(timeoutCb, this.bodyReadTimeoutMs): a timer that stays armed fires
FairSpec == Init /\ [][ReadNext]_vars /\ WF_vars(timeout /\ TimeoutCb)

TypeOK ==
    /\ maxBodySize \in 0..MaxBodySizeBound
    /\ phase \in {"idle", "rejected", "reading"}
    /\ completed \in BOOLEAN
    /\ timeout \in BOOLEAN
    /\ entryHeaders \in [both : BOOLEAN, contentLength : ContentLengthHeaders]
    /\ pc \in {"none", "auth", "vPath", "vUrl", "vBody", "vParams", "handler", "done"}
    /\ handlerOptions \in OptionSets
    /\ validated \subseteq Validators
    /\ validatorFailure \in {NoFailure} \cup [validator : Validators,
                                              outcome : ValidatorOutcomes \ {"object"}]
    /\ reqMethod \in Methods \cup {"unset"}
    /\ dangerCall \in [called : BOOLEAN, has : SUBSET {"", ".", ".."}, reason : PathReasons]
    /\ bodyParamsObject \in {"undefined", "form", "invalid", "scalar", "falsy", "object", "array"}
    /\ errorResponseCalls \subseteq 1..Len(responses)

(* ======================================================================= *)
(* Properties of the request lifecycle                                     *)
(* ======================================================================= *)
(* ---- the merge of body, query and path parameters ---- *)
\* parameter names: two ordinary ones and the one that names the prototype accessor
Keys == {"a", "b", "__proto__"}

Values == 1..MaxValue

\* objects with own enumerable properties among Keys, as functions from their own keys;
\* the order their keys were inserted in is drawn where a loop over the entries reads it
Objects == UNION {[K -> Values] : K \in SUBSET Keys}

\* Object.prototype.hasOwnProperty.call(o, key)
HasOwnProperty(o, key) == key \in DOMAIN o

\* Map.prototype.set, and o[key] = value on an object without a prototype
Set(o, key, value) == (key :> value) @@ o

\* target[key] = value on an object created by {}: "__proto__" reaches the accessor of
\* Object.prototype, which ignores a primitive value, makes an object (an array) the
\* prototype of the target, and in neither case creates an own property
Assign(target, key, value) ==
    IF key = "__proto__" THEN target ELSE Set(target, key, value)

Warning(key, current, previous) == [key |-> key, current |-> current, previous |-> previous]

\* one iteration of the loop of assignParams
AssignEntry(m, key, value, sourceType) ==
    LET warn == /\ HasOwnProperty(m.target, key)
                /\ key \in DOMAIN m.sources
                /\ m.sources[key] # sourceType
    IN [target |-> Assign(m.target, key, value),
        sources |-> Set(m.sources, key, sourceType),
        warnings |-> IF warn THEN Append(m.warnings, Warning(key, sourceType, m.sources[key]))
                     ELSE m.warnings]

\* the orders in which the own keys of an object can have been inserted; a merge step
\* takes the outcome of assignParams under any of them
InsertionOrders(o) ==
    {order \in [1..Cardinality(DOMAIN o) -> DOMAIN o] :
        \A i, j \in DOMAIN order : i # j => order[i] # order[j]}

\* Object.entries(source): the own keys with their values, in insertion order
ObjectEntries(source, order) == [i \in DOMAIN order |-> <<order[i], source[order[i]]>>]

\* the loop over Object.entries(source), entry after entry
RECURSIVE AssignEntries(_, _, _)
AssignEntries(m, entries, sourceType) ==
    IF entries = <<>> THEN m
    ELSE AssignEntries(AssignEntry(m, Head(entries)[1], Head(entries)[2], sourceType),
                       Tail(entries), sourceType)

\* assignParams(target, source, sourceType, sources), the source given by its entries
assignParams(m, entries, sourceType) == AssignEntries(m, entries, sourceType)

Merge == [target |-> mergedParams, sources |-> paramSources, warnings |-> warnings]

SetMerge(m) ==
    /\ mergedParams' = m.target
    /\ paramSources' = m.sources
    /\ warnings' = m.warnings

\* the sources of one merge, as the stages before it left them
MergeInit ==
    /\ maxBodySize = MaxBodySizeBound
    /\ callback = FALSE
    /\ rejectDangerousPaths = TRUE
    /\ RequestIdle
    /\ effectiveBodyParams \in Objects
    /\ safeUrlParams \in Objects
    /\ normalizedPathParams \in Objects
    /\ ignoreUrlParams \in BOOLEAN
    /\ mergedParams = EmptyObject
    /\ paramSources = EmptyObject
    /\ warnings = <<>>
    /\ mergePc = "body"
    /\ RegistryIdle
    /\ MatchIdle
    /\ UpgradeIdle

\* assignParams(mergedParams, effectiveBodyParams, 'body', paramSources)
MergeBody ==
    /\ mergePc = "body"
    /\ \E m \in {assignParams(Merge, ObjectEntries(effectiveBodyParams, order), "body") :
                  order \in InsertionOrders(effectiveBodyParams)} : SetMerge(m)
    /\ mergePc' = "query"
    /\ UNCHANGED <<upgradeVars, requestVars, registryVars, matchVars, effectiveBodyParams, safeUrlParams,
                   normalizedPathParams, ignoreUrlParams>>

\* if (!ignoreUrlParams) assignParams(mergedParams, safeUrlParams, 'query', paramSources)
MergeQuery ==
    /\ mergePc = "query"
    /\ IF ignoreUrlParams
       THEN SetMerge(Merge)
       ELSE \E m \in {assignParams(Merge, ObjectEntries(safeUrlParams, order), "query") :
                       order \in InsertionOrders(safeUrlParams)} : SetMerge(m)
    /\ mergePc' = "path"
    /\ UNCHANGED <<upgradeVars, requestVars, registryVars, matchVars, effectiveBodyParams, safeUrlParams,
                   normalizedPathParams, ignoreUrlParams>>

MergePathFirstWins ==
    /\ mergePc = "path"
    /\ LET unset == [k \in DOMAIN normalizedPathParams \ DOMAIN mergedParams
                       |-> normalizedPathParams[k]]
       IN \E m \in {assignParams(Merge, ObjectEntries(unset, order), "path") :
                     order \in InsertionOrders(unset)} : SetMerge(m)
    /\ mergePc' = "merged"
    /\ UNCHANGED <<upgradeVars, requestVars, registryVars, matchVars, effectiveBodyParams, safeUrlParams,
                   normalizedPathParams, ignoreUrlParams>>

\* assignParams(mergedParams, normalizedPathParams, 'path', paramSources)
MergePath ==
    /\ mergePc = "path"
    /\ \E m \in {assignParams(Merge, ObjectEntries(normalizedPathParams, order), "path") :
                  order \in InsertionOrders(normalizedPathParams)} : SetMerge(m)
    /\ mergePc' = "merged"
    /\ UNCHANGED <<upgradeVars, requestVars, registryVars, matchVars, effectiveBodyParams, safeUrlParams,
                   normalizedPathParams, ignoreUrlParams>>

MergeNext ==
    \/ MergeBody
    \/ MergeQuery
    \/ MergePath

MergeSpec == MergeInit /\ [][MergeNext]_vars

(* ---- describePath ---- *)
Thrown == [threw |-> TRUE]

describePath(path) ==
    IF ~startsWith(path, "/") THEN Thrown
    ELSE IF path = <<"/">> THEN [threw |-> FALSE, segments |-> <<>>, hasTrailingSlash |-> FALSE]
    ELSE LET hasTrailingSlash == Len(path) > 1 /\ endsWith(path, "/")
             trimmed == IF hasTrailingSlash THEN SliceOffLast(path) ELSE path
         IN IF trimmed = <<"/">>
            THEN [threw |-> FALSE, segments |-> <<>>, hasTrailingSlash |-> TRUE]
            ELSE [threw |-> FALSE, segments |-> Split(SliceOffFirst(trimmed)),
                  hasTrailingSlash |-> hasTrailingSlash]

(* ---- compilePathTemplate ---- *)
DEFAULT_SPLAT_MIN == 1
DEFAULT_SPLAT_MAX == 32

Undefined == -1

\* the groups of /^\{([A-Za-z_][A-Za-z0-9_]*)\}$/ on a part, for the words of the model
ParamMatch(part) ==
    CASE part = "{id}" -> [matches |-> TRUE, name |-> "id"]
      [] part = "{name}" -> [matches |-> TRUE, name |-> "name"]
      [] part = "{__proto__}" -> [matches |-> TRUE, name |-> "__proto__"]
      [] OTHER -> [matches |-> FALSE]

\* the groups of /^\[([A-Za-z_][A-Za-z0-9_]*)(?::(\d+)(?::(\d+))?)?\]$/ on a part
SplatMatch(part) ==
    CASE part = "[rest]" -> [matches |-> TRUE, name |-> "rest", first |-> Undefined, second |-> Undefined]
      [] part = "[rest:2]" -> [matches |-> TRUE, name |-> "rest", first |-> 2, second |-> Undefined]
      [] part = "[rest:1:2]" -> [matches |-> TRUE, name |-> "rest", first |-> 1, second |-> 2]
      [] part = "[rest:0]" -> [matches |-> TRUE, name |-> "rest", first |-> 0, second |-> Undefined]
      [] part = "[rest:2:1]" -> [matches |-> TRUE, name |-> "rest", first |-> 2, second |-> 1]
      [] part = "[tail]" -> [matches |-> TRUE, name |-> "tail", first |-> Undefined, second |-> Undefined]
      [] part = "[tail:1:2]" -> [matches |-> TRUE, name |-> "tail", first |-> 1, second |-> 2]
      [] part = "[__proto__]" -> [matches |-> TRUE, name |-> "__proto__", first |-> Undefined,
                                  second |-> Undefined]
      [] OTHER -> [matches |-> FALSE]

\* parts in braces or brackets that match neither expression
Malformed(part) == part \in {"{}", "{a-b}", "[]", "[rest:x]"}

\* the splat branch of the loop: the bounds of the segment from the groups of the match
CompileSplat(name, minItems, maxItems) ==
    IF minItems < 1 \/ maxItems < minItems THEN Thrown
    ELSE [threw |-> FALSE, type |-> "splat", name |-> name,
          minItems |-> minItems, maxItems |-> maxItems]

\* one iteration of the loop over rawSegments, with what the two expressions give
\* for the part
CompileMatched(part, paramMatch, splatMatch) ==
    IF part = "" THEN [threw |-> FALSE, type |-> "literal", value |-> ""]
    ELSE IF paramMatch.matches
    THEN [threw |-> FALSE, type |-> "param", name |-> paramMatch.name]
    ELSE IF splatMatch.matches
    THEN CompileSplat(splatMatch.name,
                      IF splatMatch.first # Undefined THEN splatMatch.first
                      ELSE DEFAULT_SPLAT_MIN,
                      IF splatMatch.first = Undefined THEN DEFAULT_SPLAT_MAX
                      ELSE IF splatMatch.second = Undefined THEN splatMatch.first
                      ELSE splatMatch.second)
    ELSE IF Malformed(part) THEN Thrown
    ELSE [threw |-> FALSE, type |-> "literal", value |-> part]

\* one iteration of the loop over rawSegments
CompileSegment(part) == CompileMatched(part, ParamMatch(part), SplatMatch(part))

\* a minimum that counts one segment too many for a splat
MinCountOverstated(segment) == IF segment.type = "splat" THEN segment.minItems + 1 ELSE 1

MinCount(segment) == IF segment.type = "splat" THEN segment.minItems ELSE 1

\* minSegmentsFrom[i] of the code is MinSegmentsFrom(segments, i + 1): indices start at 1
RECURSIVE MinSegmentsFrom(_, _)
MinSegmentsFrom(segments, i) ==
    IF i > Len(segments) THEN 0
    ELSE MinSegmentsFrom(segments, i + 1) + MinCount(segments[i])

compilePathTemplate(path) ==
    IF ~startsWith(path, "/") THEN Thrown
    ELSE IF path = <<"/">>
    THEN [threw |-> FALSE, isExact |-> TRUE, template |-> path, segments |-> <<>>,
          hasTrailingSlash |-> FALSE, hasSplat |-> FALSE, minSegments |-> 0]
    ELSE LET hasTrailingSlash == Len(path) > 1 /\ endsWith(path, "/")
             trimmed == IF hasTrailingSlash THEN SliceOffLast(path) ELSE path
             rawSegments == Split(SliceOffFirst(trimmed))
             segments == [i \in 1..Len(rawSegments) |-> CompileSegment(rawSegments[i])]
         IN IF \E i \in 1..Len(segments) : segments[i].threw THEN Thrown
            ELSE [threw |-> FALSE,
                  isExact |-> ~\E i \in 1..Len(segments) : segments[i].type # "literal",
                  template |-> path,
                  segments |-> segments,
                  hasTrailingSlash |-> hasTrailingSlash,
                  hasSplat |-> \E i \in 1..Len(segments) : segments[i].type = "splat",
                  minSegments |-> MinSegmentsFrom(segments, 1)]

(* ---- matchCompiledPath ---- *)
decodePathSegmentNoCatch(segment) == [ok |-> TRUE, value |-> segment]

\* decodeURIComponent on the words of the model; ok is FALSE where it throws
decodePathSegment(segment) ==
    CASE segment = "%zz" -> [ok |-> FALSE]
      [] segment = "a%20b" -> [ok |-> TRUE, value |-> "a b"]
      [] segment = "%2F" -> [ok |-> TRUE, value |-> "/"]
      [] OTHER -> [ok |-> TRUE, value |-> segment]

NoMatch == [matched |-> FALSE]

\* the object a match returns; taken records, for the template segments walked so far, how
\* many request segments each one consumed
Matched(params) == [matched |-> TRUE, params |-> params, taken |-> <<>>]

\* the match of the rest of the template, after a segment that consumed len segments
Taking(rest, len) == IF rest.matched THEN [rest EXCEPT !.taken = <<len>> \o @] ELSE rest

MinIgnoresFirst(a, b) == b

Min(a, b) == IF a < b THEN a ELSE b

RECURSIVE matchRecursive(_, _, _, _)
RECURSIVE SplatLoop(_, _, _, _, _, _)
RECURSIVE SplatLoopLongestFirst(_, _, _, _, _, _)

SplatLoopLongestFirst(compiled, reqSegments, tIndex, rIndex, len, maxLen) ==
    IF len > maxLen THEN NoMatch
    ELSE LET slice == SubSeq(reqSegments, rIndex, rIndex + maxLen - 1)
             failed == \E i \in 1..maxLen : ~decodePathSegment(slice[i]).ok
             rest == matchRecursive(compiled, reqSegments, tIndex + 1, rIndex + maxLen)
         IN IF failed \/ ~rest.matched
            THEN SplatLoopLongestFirst(compiled, reqSegments, tIndex, rIndex, len, maxLen - 1)
            ELSE Taking([rest EXCEPT !.params =
                           Assign(@, compiled.segments[tIndex].name,
                                  [i \in 1..maxLen |-> decodePathSegment(slice[i]).value])],
                        maxLen)

\* the for loop of the splat branch, from len up to maxLen
SplatLoop(compiled, reqSegments, tIndex, rIndex, len, maxLen) ==
    IF len > maxLen THEN NoMatch
    ELSE LET slice == SubSeq(reqSegments, rIndex, rIndex + len - 1)
             failed == \E i \in 1..len : ~decodePathSegment(slice[i]).ok
             rest == matchRecursive(compiled, reqSegments, tIndex + 1, rIndex + len)
         IN IF failed \/ ~rest.matched
            THEN SplatLoop(compiled, reqSegments, tIndex, rIndex, len + 1, maxLen)
            ELSE Taking([rest EXCEPT !.params =
                           Assign(@, compiled.segments[tIndex].name,
                                  [i \in 1..len |-> decodePathSegment(slice[i]).value])],
                        len)

\* tIndex and rIndex count from 1
matchRecursive(compiled, reqSegments, tIndex, rIndex) ==
    IF tIndex = Len(compiled.segments) + 1
    THEN (IF rIndex = Len(reqSegments) + 1 THEN Matched(EmptyObject) ELSE NoMatch)
    ELSE LET segment == compiled.segments[tIndex]
         IN CASE segment.type = "literal" ->
                   IF rIndex > Len(reqSegments) \/ segment.value # reqSegments[rIndex]
                   THEN NoMatch
                   ELSE Taking(matchRecursive(compiled, reqSegments, tIndex + 1, rIndex + 1), 1)
              [] segment.type = "param" ->
                   IF rIndex > Len(reqSegments) THEN NoMatch
                   ELSE LET decoded == decodePathSegment(reqSegments[rIndex])
                            rest == matchRecursive(compiled, reqSegments, tIndex + 1, rIndex + 1)
                        IN IF ~decoded.ok \/ ~rest.matched THEN NoMatch
                           ELSE Taking([rest EXCEPT !.params =
                                          Assign(@, segment.name, decoded.value)], 1)
              [] segment.type = "splat" ->
                   IF rIndex > Len(reqSegments) THEN NoMatch
                   ELSE LET minRemaining == MinSegmentsFrom(compiled.segments, tIndex + 1)
                            minLen == segment.minItems
                            available == Len(reqSegments) - (rIndex - 1) - minRemaining
                            maxLen == Min(segment.maxItems, available)
                        IN IF available < minLen \/ maxLen < minLen THEN NoMatch
                           ELSE SplatLoop(compiled, reqSegments, tIndex, rIndex, minLen, maxLen)

matchCompiledPathNoSlashCheck(compiled, pathInfo) ==
    IF Len(pathInfo.segments) < compiled.minSegments THEN NoMatch
    ELSE IF ~compiled.hasSplat /\ Len(pathInfo.segments) # Len(compiled.segments) THEN NoMatch
    ELSE IF Len(compiled.segments) = 0
    THEN (IF Len(pathInfo.segments) = 0 THEN Matched(EmptyObject) ELSE NoMatch)
    ELSE matchRecursive(compiled, pathInfo.segments, 1, 1)

matchCompiledPath(compiled, pathInfo) ==
    IF compiled.hasTrailingSlash /\ ~pathInfo.hasTrailingSlash THEN NoMatch
    ELSE IF Len(pathInfo.segments) < compiled.minSegments THEN NoMatch
    ELSE IF ~compiled.hasSplat /\ Len(pathInfo.segments) # Len(compiled.segments) THEN NoMatch
    ELSE IF Len(compiled.segments) = 0
    THEN (IF Len(pathInfo.segments) = 0 THEN Matched(EmptyObject) ELSE NoMatch)
    ELSE matchRecursive(compiled, pathInfo.segments, 1, 1)

(* ---- the method stores ---- *)
\* A store is { exact, dynamic }: exact a Map from template string to entry, dynamic a Map
\* kept as the sequence of its entries in insertion order.
EmptyStore == [exact |-> EmptyObject, dynamic |-> <<>>]

\* the position of a template among the keys of a dynamic Map, 0 if it is no key
IndexOf(dynamic, template) ==
    IF \E i \in 1..Len(dynamic) : dynamic[i].template = template
    THEN CHOOSE i \in 1..Len(dynamic) : dynamic[i].template = template
    ELSE 0

\* a set that moves an existing key to the end
DynamicSetMovesLast(dynamic, entry) ==
    Append(SelectSeq(dynamic, LAMBDA e : e.template # entry.template), entry)

\* Map.prototype.set on a dynamic Map: a new key goes last, an existing key keeps its place
DynamicSet(dynamic, entry) ==
    IF IndexOf(dynamic, entry.template) = 0 THEN Append(dynamic, entry)
    ELSE [dynamic EXCEPT ![IndexOf(dynamic, entry.template)] = entry]

\* Map.prototype.delete
DynamicDelete(dynamic, template) ==
    SelectSeq(dynamic, LAMBDA entry : entry.template # template)

ExactDelete(exact, template) == [t \in DOMAIN exact \ {template} |-> exact[t]]

removeFromStoreExactOnly(store, path) ==
    [store |-> [exact |-> ExactDelete(store.exact, path), dynamic |-> store.dynamic],
     removed |-> (path \in DOMAIN store.exact) \/ (IndexOf(store.dynamic, path) # 0)]

\* removeFromStore: the store without the path, and whether something was removed
removeFromStore(store, path) ==
    [store |-> [exact |-> ExactDelete(store.exact, path),
                dynamic |-> DynamicDelete(store.dynamic, path)],
     removed |-> (path \in DOMAIN store.exact) \/ (IndexOf(store.dynamic, path) # 0)]

IsEmptyStore(store) == DOMAIN store.exact = {} /\ Len(store.dynamic) = 0

(* ---- findMatchInStore ---- *)
NotFound == [threw |-> FALSE, found |-> FALSE]

LookupThrown == [threw |-> TRUE, found |-> FALSE]

\* the result of a lookup; template names the entry it came from
Found(entry, params) ==
    [threw |-> FALSE, found |-> TRUE, handler |-> entry.handler, options |-> entry.options,
     params |-> params, template |-> entry.template]

\* the loop over store.dynamic.values(), from position i
RECURSIVE DynamicLoop(_, _, _)
DynamicLoop(dynamic, pathInfo, i) ==
    IF i > Len(dynamic) THEN NotFound
    ELSE LET match == matchCompiledPath(dynamic[i], pathInfo)
         IN IF match.matched THEN Found(dynamic[i], match.params)
            ELSE DynamicLoop(dynamic, pathInfo, i + 1)

\* the dynamic part of findMatchInStore
FindDynamic(store, path) ==
    LET pathInfo == describePath(path)
    IN IF pathInfo.threw THEN LookupThrown ELSE DynamicLoop(store.dynamic, pathInfo, 1)

\* the probe of the exact Map at the path without its trailing slash
FindTrimmed(store, path) ==
    IF Len(path) > 1 /\ endsWith(path, "/")
       /\ SliceOffLast(path) \in DOMAIN store.exact
       /\ ~store.exact[SliceOffLast(path)].hasTrailingSlash
    THEN Found(store.exact[SliceOffLast(path)], EmptyObject)
    ELSE FindDynamic(store, path)

findMatchInStoreDynamicFirst(store, path) ==
    LET dynamic == FindDynamic(store, path)
    IN IF dynamic.found \/ dynamic.threw THEN dynamic
       ELSE IF path \in DOMAIN store.exact THEN Found(store.exact[path], EmptyObject)
       ELSE FindTrimmed([store EXCEPT !.dynamic = <<>>], path)

findMatchInStore(store, path) ==
    IF path \in DOMAIN store.exact THEN Found(store.exact[path], EmptyObject)
    ELSE FindTrimmed(store, path)

(* ---- the registry: requestHandleAdd, requestHandleDelete, lookups ---- *)
SUPPORTED_METHODS == {"GET", "POST", "PUT", "DELETE"}

\* String.prototype.toUpperCase on the method names of the model
toUpperCase(str) ==
    CASE str = "get" -> "GET"
      [] str = "post" -> "POST"
      [] str = "patch" -> "PATCH"
      [] OTHER -> str

normalizeMethod(m) ==
    IF toUpperCase(m) \in SUPPORTED_METHODS
    THEN [threw |-> FALSE, value |-> toUpperCase(m)]
    ELSE Thrown

\* method names passed to requestHandleAdd and requestHandleDelete
CallMethods == {"GET", "post", "PATCH"}

\* template strings passed to requestHandleAdd and requestHandleDelete
Templates ==
    {<<"/">>, <<"/", "users">>, <<"/", "users", "/">>, <<"/", "{id}">>, <<"/", "{id}", "/">>,
     <<"users">>}

\* handler functions and options objects passed to requestHandleAdd
HandlerArgs ==
    {[handler |-> "h1", typeofHandler |-> "function", options |-> "undefined"],
     [handler |-> "h2", typeofHandler |-> "function", options |-> "o2"]}

\* the arguments of requestHandleAdd calls that are followed one by one: also templates
\* with a splat, with a capture that is no capture, and with splat bounds out of order;
\* a handler that is not a function; an options object with a key outside
\* HANDLER_OPTION_KEYS
AddTemplates ==
    Templates \cup {<<"/", "[rest:1:2]">>, <<"/", "{}">>, <<"/", "{a-b}">>, <<"/", "[rest:x]">>,
                    <<"/", "[rest:0]">>, <<"/", "users", "/", "[rest:2:1]">>}

AddArgs ==
    HandlerArgs
    \cup {[handler |-> "not a function", typeofHandler |-> "string", options |-> "undefined"],
          [handler |-> "h1", typeofHandler |-> "function", options |-> "unsupported option"]}

\* typeof handler === 'function'
IsFunction(arg) == arg.typeofHandler = "function"

\* normalizeHandlerOptions: undefined for undefined, the normalized object for a plain
\* object of supported keys, a throw for anything else
normalizeHandlerOptions(options) ==
    IF options = "unsupported option" THEN Thrown
    ELSE [threw |-> FALSE, value |-> options]

\* methods and paths of the requests that reach the lookup of endCb
RequestMethods == {"GET", "POST"}

RequestPaths ==
    {<<"/">>, <<"/", "/">>, <<"/", "users">>, <<"/", "users", "/">>, <<"/", "users", "/", "/">>,
     <<"/", "x", "/">>, <<"*">>}

HasStore(handlers, m) == m \in DOMAIN handlers

\* requestHandleDelete that keeps the store it emptied
PruneNever(handlers, m) == handlers

\* this._requestHandlers.delete(method) when the store of the method has become empty
Prune(handlers, m) ==
    IF HasStore(handlers, m) /\ IsEmptyStore(handlers[m])
    THEN [k \in DOMAIN handlers \ {m} |-> handlers[k]]
    ELSE handlers

StoreSetKeepsFirst(store, entry) ==
    IF entry.template \in DOMAIN store.exact \/ IndexOf(store.dynamic, entry.template) # 0
    THEN store
    ELSE IF entry.isExact
    THEN [store EXCEPT !.exact = Set(@, entry.template, entry)]
    ELSE [store EXCEPT !.dynamic = DynamicSet(@, entry)]

\* store.exact.set / store.dynamic.set of requestHandleAdd
StoreSet(store, entry) ==
    IF entry.isExact
    THEN [store EXCEPT !.exact = Set(@, entry.template, entry)]
    ELSE [store EXCEPT !.dynamic = DynamicSet(@, entry)]

\* requestHandleAdd that creates the store of the method before it checks its arguments
requestHandleAddStoreFirst(handlers, m, path, arg) ==
    LET normalizedMethod == normalizeMethod(m)
        normalizedOptions == normalizeHandlerOptions(arg.options)
        compiled == compilePathTemplate(path)
        threw == \/ ~IsFunction(arg)
                 \/ normalizedOptions.threw
                 \/ compiled.threw
        entry == [handler |-> arg.handler, options |-> normalizedOptions.value,
                  template |-> compiled.template, isExact |-> compiled.isExact,
                  segments |-> compiled.segments,
                  hasTrailingSlash |-> compiled.hasTrailingSlash,
                  hasSplat |-> compiled.hasSplat, minSegments |-> compiled.minSegments]
        store == IF HasStore(handlers, normalizedMethod.value)
                 THEN handlers[normalizedMethod.value]
                 ELSE EmptyStore
    IN IF normalizedMethod.threw THEN [threw |-> TRUE, handlers |-> handlers]
       ELSE IF threw
       THEN [threw |-> TRUE, handlers |-> Set(handlers, normalizedMethod.value, store)]
       ELSE [threw |-> FALSE,
             method |-> normalizedMethod.value,
             handlers |-> Set(handlers, normalizedMethod.value, StoreSet(store, entry))]

\* requestHandleAdd on a registry: what the call leaves in it, and whether it threw
requestHandleAdd(handlers, m, path, arg) ==
    LET normalizedMethod == normalizeMethod(m)
        normalizedOptions == normalizeHandlerOptions(arg.options)
        compiled == compilePathTemplate(path)
        threw == \/ normalizedMethod.threw
                 \/ ~IsFunction(arg)
                 \/ normalizedOptions.threw
                 \/ compiled.threw
        entry == [handler |-> arg.handler, options |-> normalizedOptions.value,
                  template |-> compiled.template, isExact |-> compiled.isExact,
                  segments |-> compiled.segments,
                  hasTrailingSlash |-> compiled.hasTrailingSlash,
                  hasSplat |-> compiled.hasSplat, minSegments |-> compiled.minSegments]
        store == IF HasStore(handlers, normalizedMethod.value)
                 THEN handlers[normalizedMethod.value]
                 ELSE EmptyStore
    IN IF threw THEN [threw |-> TRUE, handlers |-> handlers]
       ELSE [threw |-> FALSE,
             method |-> normalizedMethod.value,
             handlers |-> Set(handlers, normalizedMethod.value, StoreSet(store, entry))]

\* one call of requestHandleAdd on the registry of the server
AddCall(m, path, arg) ==
    LET added == requestHandleAdd(requestHandlers, m, path, arg)
    IN /\ requestHandlers' = added.handlers
       /\ lastCall' = [op |-> "add", method |-> m, path |-> path, handler |-> arg.handler,
                       options |-> arg.options, threw |-> added.threw,
                       before |-> requestHandlers]
       /\ latestAdd' = (IF added.threw THEN latestAdd
                        ELSE Set(latestAdd, <<added.method, path>>, arg))

RequestHandleAdd ==
    /\ calls < MaxCalls
    /\ \E m \in CallMethods, path \in Templates, arg \in HandlerArgs : AddCall(m, path, arg)
    /\ calls' = calls + 1
    /\ UNCHANGED <<upgradeVars, requestVars, mergeVars, matchVars>>

\* requestHandleAdd with any of the arguments, valid or not
RequestHandleAddAny ==
    /\ calls < MaxCalls
    /\ \E m \in CallMethods, path \in AddTemplates, arg \in AddArgs : AddCall(m, path, arg)
    /\ calls' = calls + 1
    /\ UNCHANGED <<upgradeVars, requestVars, mergeVars, matchVars>>

\* the loop of requestHandleDelete('*', path) over the stores, in any order
RECURSIVE DeleteFromAll(_, _, _)
DeleteFromAll(handlers, path, methods) ==
    IF methods = {} THEN [handlers |-> handlers, removed |-> FALSE]
    ELSE LET m == CHOOSE k \in methods : TRUE
             one == removeFromStore(handlers[m], path)
             rest == DeleteFromAll(Prune(Set(handlers, m, one.store), m), path, methods \ {m})
         IN [handlers |-> rest.handlers, removed |-> one.removed \/ rest.removed]

DeleteFromOneReportsStore(handlers, m, path) ==
    IF ~HasStore(handlers, m) THEN [handlers |-> handlers, removed |-> FALSE]
    ELSE LET one == removeFromStore(handlers[m], path)
         IN [handlers |-> Prune(Set(handlers, m, one.store), m), removed |-> TRUE]

\* requestHandleDelete with a specific method
DeleteFromOne(handlers, m, path) ==
    IF ~HasStore(handlers, m) THEN [handlers |-> handlers, removed |-> FALSE]
    ELSE LET one == removeFromStore(handlers[m], path)
         IN [handlers |-> Prune(Set(handlers, m, one.store), m), removed |-> one.removed]

\* the last call was a requestHandleAdd that registered this method and path
Registered(call, m, path) ==
    /\ call.op = "add"
    /\ ~call.threw
    /\ call.path = path
    /\ normalizeMethod(call.method).value = m

\* one call of requestHandleDelete on the registry of the server
DeleteCall(m, path) ==
    LET normalizedMethod == IF m = "*" THEN [threw |-> FALSE, value |-> "*"]
                            ELSE normalizeMethod(m)
        threw == ~startsWith(path, "/") \/ normalizedMethod.threw
        result == IF m = "*" THEN DeleteFromAll(requestHandlers, path, DOMAIN requestHandlers)
                  ELSE DeleteFromOne(requestHandlers, normalizedMethod.value, path)
        followsAdd == ~threw /\ m # "*" /\ Registered(lastCall, normalizedMethod.value, path)
    IN /\ requestHandlers' = (IF threw THEN requestHandlers ELSE result.handlers)
       /\ lastCall' = [op |-> "delete", method |-> m, path |-> path, threw |-> threw,
                       removed |-> IF threw THEN FALSE ELSE result.removed,
                       before |-> requestHandlers, followsAdd |-> followsAdd,
                       beforeAdd |-> IF followsAdd THEN lastCall.before
                                     ELSE requestHandlers]
       /\ latestAdd' =
            (IF threw THEN latestAdd
             ELSE [k \in {k \in DOMAIN latestAdd :
                             k[2] # path \/ (m # "*" /\ k[1] # normalizedMethod.value)}
                   |-> latestAdd[k]])

RequestHandleDelete ==
    /\ calls < MaxCalls
    /\ \E m \in CallMethods \cup {"*"}, path \in Templates : DeleteCall(m, path)
    /\ calls' = calls + 1
    /\ UNCHANGED <<upgradeVars, requestVars, mergeVars, matchVars>>

\* #matchRequestHandler
matchRequestHandler(handlers, m, path) ==
    IF ~HasStore(handlers, toUpperCase(m)) THEN NotFound
    ELSE findMatchInStore(handlers[toUpperCase(m)], path)

\* #hasHandlerForOtherMethod: TRUE, FALSE, or the throw of the first store whose lookup
\* throws; every store throws for the same paths, so the order of the stores is immaterial
hasHandlerForOtherMethod(handlers, m, path) ==
    LET others == DOMAIN handlers \ {toUpperCase(m)}
    IN IF others # {} /\ describePath(path).threw THEN [threw |-> TRUE]
       ELSE [threw |-> FALSE,
             value |-> \E k \in others : findMatchInStore(handlers[k], path).found]

\* the handler resolution of endCb: the entry found, the callback, 405, 404, or the 500 of
\* the catch when the lookup throws
Resolve(handlers, hasCallback, m, path) ==
    LET match == matchRequestHandler(handlers, m, path)
        other == hasHandlerForOtherMethod(handlers, m, path)
    IN IF match.threw THEN [result |-> "500", match |-> match]
       ELSE IF match.found THEN [result |-> "handler", match |-> match]
       ELSE IF hasCallback THEN [result |-> "callback", match |-> match]
       ELSE IF other.threw THEN [result |-> "500", match |-> match]
       ELSE IF other.value THEN [result |-> "405", match |-> match]
       ELSE [result |-> "404", match |-> match]

\* a request reaches the handler resolution of endCb
Request ==
    /\ \E m \in RequestMethods, path \in RequestPaths :
         lastCall' = [op |-> "request", method |-> m, path |-> path,
                      resolved |-> Resolve(requestHandlers, callback, m, path)]
    /\ UNCHANGED <<upgradeVars, requestVars, mergeVars, matchVars, requestHandlers, calls, latestAdd>>

\* the requestHandlers option of the constructor: the (method, path, handler) entries of
\* the object in the order Object.entries gives them; none, or one function for
\* POST /users
ConstructorHandlers ==
    {<<>>,
     <<[method |-> "POST", path |-> <<"/", "users">>,
        arg |-> [handler |-> "h1", typeofHandler |-> "function", options |-> "undefined"]]>>}

\* the loop of the constructor over opts.requestHandlers, calling requestHandleAdd; a call
\* that throws ends the loop and throws out of the constructor
RECURSIVE AddAll(_, _, _)
AddAll(handlers, latest, defs) ==
    IF defs = <<>> THEN [threw |-> FALSE, handlers |-> handlers, latest |-> latest]
    ELSE LET d == Head(defs)
             added == requestHandleAdd(handlers, d.method, d.path, d.arg)
         IN IF added.threw THEN [threw |-> TRUE, handlers |-> handlers, latest |-> latest]
            ELSE AddAll(added.handlers, Set(latest, <<added.method, d.path>>, d.arg),
                        Tail(defs))

\* a requestHandlers option with two dynamic templates for GET that both match "/x/"
OverlappingHandlers ==
    {<<[method |-> "GET", path |-> <<"/", "{id}">>,
        arg |-> [handler |-> "h1", typeofHandler |-> "function", options |-> "undefined"]],
       [method |-> "GET", path |-> <<"/", "{id}", "/">>,
        arg |-> [handler |-> "h2", typeofHandler |-> "function", options |-> "o2"]]>>}

\* the server after its constructor, given one of the requestHandlers options that it
\* accepts
Constructed(options) ==
    /\ maxBodySize = MaxBodySizeBound
    /\ callback \in BOOLEAN
    /\ rejectDangerousPaths = FALSE
    /\ RequestIdle
    /\ MergeIdle
    /\ \E defs \in options :
         LET built == AddAll(EmptyObject, EmptyObject, defs)
         IN /\ ~built.threw
            /\ requestHandlers = built.handlers
            /\ latestAdd = built.latest
    /\ calls = 0
    /\ lastCall = NoCall
    /\ MatchIdle
    /\ UpgradeIdle

RegistryInit == Constructed(ConstructorHandlers)

AddInit == Constructed(ConstructorHandlers \cup OverlappingHandlers)

RegistryNext ==
    \/ RequestHandleAdd
    \/ RequestHandleDelete
    \/ Request

RegistrySpec == RegistryInit /\ [][RegistryNext]_vars

\* requestHandleAdd calls alone, on the registry the constructor leaves
AddSpec == AddInit /\ [][RequestHandleAddAny]_vars

(* ---- a request and the registry calls made while it is suspended ---- *)
\* the handlers a server is constructed with: one function for GET /{id} without options,
\* or one for GET /a with an options object
ServedHandlers ==
    {<<[method |-> "GET", path |-> <<"/", "{id}">>,
        arg |-> [handler |-> "h1", typeofHandler |-> "function", options |-> "undefined"]]>>,
     <<[method |-> "GET", path |-> <<"/", "a">>,
        arg |-> [handler |-> "h2", typeofHandler |-> "function", options |-> "o2"]]>>}

\* the templates of the registry calls made during a request
ServedTemplates == {<<"/", "{id}">>, <<"/", "a">>}

\* the options objects as the stages of endCb read them: o2 holds a paramsValidator
HandlerOptionsOf(options) ==
    IF options = "o2" THEN [validators |-> {"params"}, ignoreUrlParams |-> FALSE]
    ELSE NoOptions

\* the lookup of endCb on the registry as it is when endCb runs
RegistryLookup(m, path) ==
    LET resolved == Resolve(requestHandlers, callback, m, path)
    IN {IF resolved.result = "500"
        THEN [found |-> "throws", handler |-> "undefined", options |-> NoOptions,
              hasOtherMethod |-> FALSE]
        ELSE IF resolved.result = "handler"
        THEN [found |-> "entry", handler |-> resolved.match.handler,
              options |-> HandlerOptionsOf(resolved.match.options), hasOtherMethod |-> FALSE]
        ELSE [found |-> "none", handler |-> "undefined", options |-> NoOptions,
              hasOtherMethod |-> resolved.result = "405"]}

\* endCb for a GET request, looked up in the registry as it is then
ServedEndCb == EndCbWith([m \in {"GET"}, path \in UrlPaths |-> RegistryLookup(m, path)])

\* requestHandleAdd and requestHandleDelete, called at any moment of the request
AddDuringRequest ==
    /\ calls < MaxServedCalls
    /\ \E path \in ServedTemplates, arg \in HandlerArgs : AddCall("GET", path, arg)
    /\ calls' = calls + 1
    /\ UNCHANGED <<upgradeVars, requestVars, mergeVars, matchVars>>

DeleteDuringRequest ==
    /\ calls < MaxServedCalls
    /\ \E m \in {"GET", "*"}, path \in ServedTemplates : DeleteCall(m, path)
    /\ calls' = calls + 1
    /\ UNCHANGED <<upgradeVars, requestVars, mergeVars, matchVars>>

ServedNext ==
    \/ RequestCb
    \/ DataCb
    \/ ServedEndCb
    \/ ErrorCb
    \/ TimeoutCb
    \/ AuthResolve
    \/ ValidatorResolve
    \/ HandlerResolve
    \/ CallbackWrite
    \/ AddDuringRequest
    \/ DeleteDuringRequest

ServedInit == Constructed(ServedHandlers)

ServedSpec == ServedInit /\ [][ServedNext]_vars

(* ---- upgradeCb ---- *)
\* req.url of the upgrade requests: a path, and what follows a "?" if there is one
UpgradeUrls ==
    {[path |-> path, query |-> query] :
       path \in {"/", "/ws", "/ws/chat"}, query \in {"undefined", "", "a=1"}}

\* parseQuery: an object without properties for no string or an empty one
parseQuery(str) == IF str \in {"undefined", ""} THEN "empty object" ELSE "parsed query"

\* a gate that lets everything but a throw through
AuthorizedUnlessThrown(ret) == ret # "throws"

\* if (ret), for the value the authentication callback resolved to
Authorized(ret) == ret = "truthy"

\* s.destroy(); s = undefined
Destroy(sock) == [s |-> FALSE, destroyed |-> TRUE]

\* the catch of upgradeCb: if (s) { s.destroy(); s = undefined }
Caught(sock) == IF sock.s THEN Destroy(sock) ELSE sock

UpgradeInit ==
    /\ maxBodySize = MaxBodySizeBound
    /\ callback = FALSE
    /\ rejectDangerousPaths = FALSE
    /\ RequestIdle
    /\ MergeIdle
    /\ RegistryIdle
    /\ MatchIdle
    /\ debug \in BOOLEAN
    /\ upgradeCallback \in BOOLEAN
    /\ UpgradeWaiting

\* the server emits 'upgrade': upgradeCb up to its await of the authentication callback
UpgradeCb ==
    /\ upgradeCallback
    /\ upgradePc = "idle"
    /\ \E url \in UpgradeUrls :
         /\ upgradeR' = [NoR EXCEPT !.url = url.path]
         /\ authSaw' = [called |-> TRUE, r |-> upgradeR', query |-> url.query]
    /\ upgradePc' = "auth"
    /\ UNCHANGED <<debug, upgradeCallback, socket, upgradeAuth, upgradeRet, upgradeReturn,
                   upgradeLog, upgradeSaw>>
    /\ UNCHANGED <<requestVars, mergeVars, registryVars, matchVars>>

\* the authentication callback resolves; upgradeCb goes on to its await of the upgrade
\* handler, or destroys the socket and returns false
UpgradeAuthResolve ==
    /\ upgradePc = "auth"
    /\ \E ret \in {"truthy", "falsy", "throws"} :
         /\ upgradeAuth' = ret
         /\ IF ret = "throws"
            THEN /\ socket' = Caught(socket)
                 /\ upgradeReturn' = "false"
                 /\ upgradePc' = "done"
                 /\ UNCHANGED <<upgradeR, upgradeSaw>>
            ELSE IF Authorized(ret)
            THEN /\ upgradeR' = [upgradeR EXCEPT !.urlParams = parseQuery(authSaw.query),
                                                 !.params = parseQuery(authSaw.query),
                                                 !.bodyParams = "empty object",
                                                 !.pathParams = "empty object",
                                                 !.head = "head",
                                                 !.s = "s"]
                 /\ upgradeSaw' = [called |-> TRUE, r |-> upgradeR']
                 /\ upgradePc' = "upgrade"
                 /\ UNCHANGED <<socket, upgradeReturn>>
            ELSE /\ socket' = Destroy(socket)
                 /\ upgradeReturn' = "false"
                 /\ upgradePc' = "done"
                 /\ UNCHANGED <<upgradeR, upgradeSaw>>
    /\ UNCHANGED <<debug, upgradeCallback, upgradeRet, upgradeLog, authSaw>>
    /\ UNCHANGED <<requestVars, mergeVars, registryVars, matchVars>>

\* the upgrade handler resolves; upgradeCb returns what it gave, or false from the catch
UpgradeResolve ==
    /\ upgradePc = "upgrade"
    /\ \E cbRet \in {"truthy", "falsy", "throws"} :
         /\ upgradeRet' = cbRet
         /\ IF cbRet = "throws"
            THEN /\ socket' = Caught(socket)
                 /\ upgradeReturn' = "false"
                 /\ UNCHANGED upgradeLog
            ELSE /\ upgradeLog' = (IF cbRet = "truthy" /\ debug
                                   THEN Append(upgradeLog, "Upgrade successfully processed")
                                   ELSE upgradeLog)
                 /\ upgradeReturn' = cbRet
                 /\ UNCHANGED socket
    /\ upgradePc' = "done"
    /\ UNCHANGED <<debug, upgradeCallback, upgradeR, upgradeAuth, authSaw, upgradeSaw>>
    /\ UNCHANGED <<requestVars, mergeVars, registryVars, matchVars>>

UpgradeNext ==
    \/ UpgradeCb
    \/ UpgradeAuthResolve
    \/ UpgradeResolve

UpgradeSpec == UpgradeInit /\ [][UpgradeNext]_vars

(* ---- one lookup, from the templates to the result ---- *)
\* the segments that request paths are made of: a plain one, one that decodeURIComponent
\* changes, and one it rejects
Words == {"a", "a%20b", "%zz"}

\* the path string with the given segments
JoinPath(segs) ==
    IF segs = <<>> THEN <<"/">>
    ELSE [i \in 1..(2 * Len(segs)) |-> IF i % 2 = 1 THEN "/" ELSE segs[i \div 2]]

\* request paths: up to MaxSegments segments, with and without a slash at the end
MatchPaths ==
    LET lists == UNION {[1..k -> Words] : k \in 0..MaxSegments}
    IN {JoinPath(segs) : segs \in lists} \cup {Append(JoinPath(segs), "/") : segs \in lists}

\* the templates registered before the lookup, in registration order
MatchTemplates ==
    {<<JoinPath(<<>>)>>,
     <<JoinPath(<<"a">>)>>,
     <<JoinPath(<<"{id}">>)>>,
     <<JoinPath(<<"a", "{id}">>)>>,
     <<JoinPath(<<"{id}", "a">>)>>,
     <<JoinPath(<<"{id}", "{name}">>)>>,
     <<JoinPath(<<"{id}", "{id}">>)>>,
     <<JoinPath(<<"[rest]">>)>>,
     <<JoinPath(<<"a", "[rest]">>)>>,
     <<JoinPath(<<"[rest]", "a">>)>>,
     <<JoinPath(<<"[rest:2]">>)>>,
     <<JoinPath(<<"[rest:1:2]">>)>>,
     <<JoinPath(<<"[rest]", "[tail]">>)>>,
     <<JoinPath(<<"[rest:1:2]", "[tail]">>)>>,
     <<JoinPath(<<"[rest]", "[tail:1:2]">>)>>,
     <<JoinPath(<<"[rest:2]", "[tail:1:2]">>)>>,
     <<JoinPath(<<"[rest]", "a", "[tail]">>)>>,
     <<JoinPath(<<"[rest]", "{id}">>)>>,
     <<JoinPath(<<"{id}", "[rest]">>)>>,
     <<JoinPath(<<"[rest]", "[rest:2]">>)>>,
     <<JoinPath(<<"{__proto__}">>)>>,
     <<JoinPath(<<"[__proto__]">>)>>,
     <<Append(JoinPath(<<"{id}">>), "/")>>,
     <<Append(JoinPath(<<"[rest]">>), "/")>>,
     <<JoinPath(<<"[rest:0]">>)>>,
     <<JoinPath(<<"[rest:2:1]">>)>>,
     <<JoinPath(<<"{id}">>), JoinPath(<<"[rest]">>)>>,
     <<JoinPath(<<"[rest:2]">>), JoinPath(<<"{id}", "{name}">>)>>,
     <<JoinPath(<<"{id}", "{name}">>), JoinPath(<<"%zz", "{id}">>)>>,
     <<JoinPath(<<"{id}", "a">>), JoinPath(<<"[rest]">>)>>}

MatchInit ==
    /\ maxBodySize = MaxBodySizeBound
    /\ callback \in BOOLEAN
    /\ rejectDangerousPaths = FALSE
    /\ RequestIdle
    /\ MergeIdle
    /\ RegistryIdle
    /\ UpgradeIdle
    /\ matchTemplates \in MatchTemplates
    /\ matchPath \in MatchPaths
    /\ matchCompiled = <<>>
    /\ matches = <<>>
    /\ matchResolved = [result |-> "none"]
    /\ matchPc = "compile"

\* compilePathTemplate on each template
CompileTemplates ==
    /\ matchPc = "compile"
    /\ matchCompiled' = [i \in 1..Len(matchTemplates) |-> compilePathTemplate(matchTemplates[i])]
    /\ matchPc' = "match"
    /\ UNCHANGED <<upgradeVars, requestVars, mergeVars, registryVars, matchTemplates, matchPath, matches,
                   matchResolved>>

\* matchCompiledPath of the described request path against each template that compiled
MatchPath ==
    /\ matchPc = "match"
    /\ matches' = [i \in 1..Len(matchCompiled) |->
                     IF matchCompiled[i].threw THEN NoMatch
                     ELSE matchCompiledPath(matchCompiled[i], describePath(matchPath))]
    /\ matchPc' = "lookup"
    /\ UNCHANGED <<upgradeVars, requestVars, mergeVars, registryVars, matchTemplates, matchPath,
                   matchCompiled, matchResolved>>

\* the requestHandlers option that registers the templates for GET, the i-th with handler i
Registering(templates) ==
    [i \in 1..Len(templates) |->
       [method |-> "GET", path |-> templates[i],
        arg |-> [handler |-> i, typeofHandler |-> "function", options |-> "undefined"]]]

\* the handler resolution of endCb for GET matchPath, on the server constructed with the
\* templates; a constructor that threw has left no server to resolve on
LookupPath ==
    /\ matchPc = "lookup"
    /\ ~AddAll(EmptyObject, EmptyObject, Registering(matchTemplates)).threw
    /\ matchResolved' = Resolve(AddAll(EmptyObject, EmptyObject, Registering(matchTemplates)).handlers,
                                callback, "GET", matchPath)
    /\ matchPc' = "done"
    /\ UNCHANGED <<upgradeVars, requestVars, mergeVars, registryVars, matchTemplates, matchPath,
                   matchCompiled, matches>>

MatchNext ==
    \/ CompileTemplates
    \/ MatchPath
    \/ LookupPath

MatchSpec == MatchInit /\ [][MatchNext]_vars

(* ---- properties ---- *)
Resp(code, text) == [fn |-> "error", code |-> code, text |-> text]

\* the responses the framework wrote itself, in order: those that no call of r.errorResponse
\* or r.jsonResponse by the authentication callback or the handler wrote
RECURSIVE OwnFrom(_)
OwnFrom(i) ==
    IF i > Len(responses) THEN <<>>
    ELSE IF i \in errorResponseCalls \/ responses[i].fn = "jsonResponse" THEN OwnFrom(i + 1)
    ELSE <<responses[i]>> \o OwnFrom(i + 1)

OwnResponses == OwnFrom(1)

\* the authentication callback or the handler has written the response of the request
CallbackWrote == responses # <<>> /\ OwnResponses = <<>>

Codes == {OwnResponses[i].code : i \in 1..Len(OwnResponses)}

TimeoutResponse == Resp(408, "Timeout occured while reading the request data.")
LongerResponse == Resp(400, "Request body longer than Content-Length.")
MismatchResponse == Resp(400, "Request body length does not match Content-Length.")
TooLargeResponse == Resp(413, "Request body too large.")
HandlerFailsResponse == Resp(500, "Request handler fails to execute.")

\* the read ended at end-of-stream with the declared length, if any, met
ReadCompleted ==
    /\ completed
    /\ pc # "none"
    /\ body = bodySize
    /\ declaredContentLength # UndefinedLength => bodySize = declaredContentLength

\* C1: once body reading has started, whatever data, end, error and timeout events are
\* delivered, in any order and any number of times, at most one response is written for the
\* request, and the framework writes one of its own only with the request completed and no
\* callback of it pending.
C1_AtMostOneResponse ==
    phase = "reading"
    => /\ Len(responses) <= 1
       /\ OwnResponses # <<>> => (completed /\ pc \in {"none", "done"})

\* the framework answered a request whose body had started to arrive
C1_Witness ==
    phase = "reading" /\ completed /\ bodySize > 0 /\ Len(OwnResponses) = 1

\* C2 as stated: the handler is invoked at most once, only after a successful read, a resolved
\* handler, a truthy authentication and the success of every configured validator, and never
\* after a framework error response.
C2_Original ==
    /\ handlerCalls <= 1
    /\ pc = "handler" => OwnResponses = <<>>
    /\ handlerCalls = 1 =>
        /\ ReadCompleted
        /\ handler \in {"entry", "callback"}
        /\ authResult = "truthy"
        /\ \A v \in handlerOptions.validators : v \in validated
        /\ OwnResponses \in {<<>>, <<HandlerFailsResponse>>}

\* C2 amended: as C2, with every configured validator that applies to the request having
\* succeeded; the urlParamsValidator is not run when ignoreUrlParams is set.
C2_HandlerOnceAfterValidation ==
    /\ handlerCalls <= 1
    /\ pc = "handler" => OwnResponses = <<>>
    /\ handlerCalls = 1 =>
        /\ ReadCompleted
        /\ handler \in {"entry", "callback"}
        /\ authResult = "truthy"
        /\ \A v \in handlerOptions.validators :
              (v = "url" /\ handlerOptions.ignoreUrlParams) \/ v \in validated
        /\ OwnResponses \in {<<>>, <<HandlerFailsResponse>>}

\* the handler of an entry with all four validators was invoked
C2_Witness ==
    handlerCalls = 1 /\ handlerOptions.validators = Validators /\ validated = Validators

\* C3: COMPLETED is terminal: a completed request stays completed, every data, end, error or
\* timeout event delivered to it changes neither the body, the byte count nor the responses,
\* and no timer is armed while it is completed.
C3_CompletedIsTerminal ==
    /\ [](completed => ~timeout)
    /\ [][completed => /\ completed'
                       /\ body' = body
                       /\ bodySize' = bodySize
                       /\ (DataCb \/ EndCb \/ ErrorCb \/ TimeoutCb) => responses' = responses]_vars

\* a request completed by a terminal event of the read, after bytes had arrived
C3_Witness ==
    completed /\ ~timeout /\ pc = "none" /\ bodySize > 0 /\ Len(responses) = 1

\* C4: a timer that fires while the request is READING completes it with exactly one 408,
\* whatever has been received, and the handler is never invoked for that request.
C4_TimeoutGives408 ==
    /\ [][(TimeoutCb /\ ~completed) => (completed' /\ responses' = <<TimeoutResponse>>)]_vars
    /\ [](408 \in Codes => /\ responses = <<TimeoutResponse>>
                           /\ completed
                           /\ handlerCalls = 0)

\* the timer fired after part of the body had been received
C4_Witness ==
    responses = <<TimeoutResponse>> /\ bodySize > 0 /\ completed

\* C5: while READING, the chunk that takes the byte count over the declared Content-Length
\* completes the request with exactly one 400 and destroys the transport; end-of-stream is
\* never processed for it and the handler is never invoked.
C5_LongerThanContentLength ==
    /\ [][(~completed /\ declaredContentLength # UndefinedLength
             /\ bodySize' > declaredContentLength)
          => (completed' /\ destroyed' /\ responses' = <<LongerResponse>>)]_vars
    /\ []((declaredContentLength # UndefinedLength /\ bodySize > declaredContentLength)
          => /\ responses = <<LongerResponse>>
             /\ completed /\ destroyed
             /\ pc = "none"
             /\ handlerCalls = 0)

\* one byte more than the declared Content-Length was delivered
C5_Witness ==
    /\ declaredContentLength # UndefinedLength
    /\ bodySize = declaredContentLength + 1
    /\ responses = <<LongerResponse>>

\* C6: at end-of-stream of a READING request, a declared Content-Length that the accumulated
\* size does not equal gives a 400 and no handler invocation; otherwise the read completes
\* and the body goes on to content negotiation.
C6_EndOfStreamLength ==
    /\ [][(~completed /\ pc = "none" /\ pc' # "none")
          => IF declaredContentLength # UndefinedLength /\ bodySize # declaredContentLength
             THEN responses' = <<MismatchResponse>> /\ pc' = "done"
             ELSE /\ completed' /\ body' = bodySize
                  /\ MismatchResponse \notin {responses'[i] : i \in 1..Len(responses')}
                  /\ \/ authView'.called /\ pc' \in {"auth", "done"}
                     \/ /\ pc' = "done"
                        /\ Len(responses') = 1
                        /\ responses'[1].code \in {400, 404, 405, 500}]_vars
    /\ [](MismatchResponse \in {responses[i] : i \in 1..Len(responses)}
          => /\ responses = <<MismatchResponse>>
             /\ handlerCalls = 0
             /\ bodySize # declaredContentLength)

\* end-of-stream arrived with fewer bytes than declared
C6_Witness ==
    /\ responses = <<MismatchResponse>>
    /\ bodySize > 0
    /\ bodySize < declaredContentLength

\* C7 as stated: a declared Content-Length above maxBodySize is refused with 413 before any
\* byte is read, a byte count above maxBodySize is refused at that chunk (with 413, or with
\* the 400 of an exceeded Content-Length), the transport is destroyed and no handler runs.
C7_Claim ==
    /\ (declaredContentLength # UndefinedLength /\ declaredContentLength > maxBodySize)
        => /\ phase = "rejected"
           /\ responses = <<TooLargeResponse>>
           /\ destroyed
           /\ bodySize = 0
           /\ handlerCalls = 0
    /\ bodySize > maxBodySize
        => /\ completed
           /\ destroyed
           /\ responses \in {<<TooLargeResponse>>, <<LongerResponse>>}
           /\ handlerCalls = 0

\* C8 as stated: with maxBodySize 0 a request that declares or delivers a body byte is
\* rejected as too large, and its handler is never invoked.
C8_Claim ==
    (maxBodySize = 0 /\ phase # "idle"
        /\ (declaredContentLength >= 1 \/ bodySize >= 1))
    => (413 \in Codes /\ handlerCalls = 0)

\* C9: when the authentication callback is invoked, params, pathParams, urlParams and
\* bodyParams are all unset and no query parsing, body decoding or validator has run; they
\* stay so while it runs.
C9_AuthSeesNoParams ==
    /\ authView.called => (authView.r = UnsetParams /\ authView.trace = <<>>)
    /\ pc = "auth" => (r = UnsetParams /\ trace = <<"auth">>)

\* the authentication callback has been invoked for a request with a body
C9_Witness ==
    authView.called /\ pc = "auth" /\ body > 0

\* C10 as stated: a falsy or rejected authentication runs no validator, invokes no handler
\* and has the framework write no response.
C10_Original ==
    authResult \in {"falsy", "throws"}
    => (trace = <<"auth">> /\ handlerCalls = 0 /\ OwnResponses = <<>>)

\* C10 amended: a falsy authentication runs no validator, invokes no handler and has the
\* framework write no response; a throwing or rejecting one runs no validator and invokes no
\* handler either, but the catch of endCb answers it with one 500, unless the callback had
\* written a response itself, which then stays the only one.
C10_AuthFailureAborts ==
    /\ authResult = "falsy"
        => (trace = <<"auth">> /\ handlerCalls = 0 /\ OwnResponses = <<>> /\ pc = "done")
    /\ authResult = "throws"
        => /\ trace = <<"auth">> /\ handlerCalls = 0 /\ pc = "done"
           /\ Len(responses) = 1
           /\ ~CallbackWrote => responses = <<HandlerFailsResponse>>

\* authentication threw for an entry that has validators, and was answered 500
C10_Witness ==
    /\ authResult = "throws" /\ handlerOptions.validators # {} /\ pc = "done"
    /\ responses = <<HandlerFailsResponse>>

\* the stages of endCb in the order of the code
StageOrder ==
    <<"auth", "pathParamsValidator", "parseQuery", "urlParamsValidator", "decodeBody",
      "bodyParamsValidator", "merge", "paramsValidator", "handler">>

Rank(stage) == CHOOSE i \in 1..Len(StageOrder) : StageOrder[i] = stage

\* the stage endCb is suspended in
Awaited(at) ==
    CASE at = "auth" -> "auth"
      [] at = "vPath" -> "pathParamsValidator"
      [] at = "vUrl" -> "urlParamsValidator"
      [] at = "vBody" -> "bodyParamsValidator"
      [] at = "vParams" -> "paramsValidator"
      [] at = "handler" -> "handler"

\* an asynchronous stage has resolved in favour of going on
Resolved(stage) ==
    CASE stage = "auth" -> authResult = "truthy"
      [] stage = "pathParamsValidator" -> "path" \in validated
      [] stage = "urlParamsValidator" -> "url" \in validated
      [] stage = "bodyParamsValidator" -> "body" \in validated
      [] stage = "paramsValidator" -> "params" \in validated
      [] OTHER -> TRUE

C11_Ordered ==
    /\ \A i, j \in 1..Len(trace) : i < j => Rank(trace[i]) < Rank(trace[j])
    /\ pc \in {"auth", "vPath", "vUrl", "vBody", "vParams", "handler"}
        => (trace # <<>> /\ trace[Len(trace)] = Awaited(pc) /\ OwnResponses = <<>>)
    /\ \A i \in 1..Len(trace) - 1 : Resolved(trace[i])

\* C11: the stages of a request start in the order authentication, path validator, query
\* parsing, URL validator, body decoding, body validator, merge, merged-parameter validator,
\* handler; while a stage is awaited it is the last one started, every stage before a started
\* one has resolved successfully, and once a response was written no further stage starts.
C11_StagesInSequence ==
    /\ []C11_Ordered
    /\ [][OwnResponses # <<>> => trace' = trace]_vars

\* a request went through all nine stages
C11_Witness ==
    trace = StageOrder /\ pc = "done" /\ handlerCalls = 1

\* the request field a validator's result ends up in
ValidatedField(validator) ==
    CASE validator = "path" -> r.pathParams
      [] validator = "url" -> r.urlParams
      [] validator = "body" -> r.bodyParams
      [] validator = "params" -> r.params

\* the response runValidator gives a failed validator
FailureResponse ==
    CASE validatorFailure.outcome = "throws" -> Resp(400, "err.message")
      [] validatorFailure.outcome = "throws bare" ->
            Resp(400, "Invalid " \o Description(validatorFailure.validator) \o ".")
      [] validatorFailure.outcome = "nonobject" ->
            Resp(500, Description(validatorFailure.validator) \o " validator must return an object.")

\* C12 as stated: for each of the four validators, a throw or rejection yields one 400
\* carrying the error's message, a result that is not an object one 500, in both cases the
\* handler is not invoked; the result of a validator that returned an object replaces the
\* parameters it validated.
C12_Claim ==
    /\ validatorFailure # NoFailure
        => (responses = <<FailureResponse>> /\ handlerCalls = 0 /\ pc = "done")
    /\ handlerCalls > 0
        => \A v \in Validators :
             ValidatedField(v) = "validator result" <=> v \in validated

\* C12 amended: for each of the four validators, a throw or rejection, or a result that is
\* not an object, ends the request without the handler being invoked; it is answered with one
\* 400 carrying the error's message (a fixed text naming the parameters when the error has
\* none), respectively with one 500, unless the authentication callback had written a
\* response itself, which then stays the only one; the handler sees the result of every
\* validator that returned an object in place of the parameters it validated.
C12_ValidatorOutcomes ==
    /\ validatorFailure # NoFailure
        => /\ handlerCalls = 0 /\ pc = "done"
           /\ Len(responses) = 1
           /\ ~CallbackWrote => responses = <<FailureResponse>>
    /\ handlerCalls > 0
        => \A v \in Validators :
             ValidatedField(v) = "validator result" <=> v \in validated

\* the merged-parameter validator failed after the three before it had returned objects,
\* and was answered
C12_Witness ==
    /\ validatorFailure.validator = "params"
    /\ validated = {"path", "url", "body"}
    /\ responses = <<FailureResponse>>

\* r.urlParams as the handler sees it: absent when the entry sets ignoreUrlParams
UrlParamsSeen == IF ignoreUrlParams THEN EmptyObject ELSE safeUrlParams

\* the value precedence gives a key: path, else query, else body
Precedence(key) ==
    IF key \in DOMAIN normalizedPathParams THEN normalizedPathParams[key]
    ELSE IF key \in DOMAIN UrlParamsSeen THEN UrlParamsSeen[key]
    ELSE effectiveBodyParams[key]

SourceKeys ==
    DOMAIN effectiveBodyParams \cup DOMAIN UrlParamsSeen \cup DOMAIN normalizedPathParams

\* C13: the merged params object has exactly the keys of the body, query and path
\* parameters, and each key has the path value if it is a path parameter, else the query
\* value if it is a query parameter, else the body value.
C13_Claim ==
    mergePc = "merged"
    => /\ DOMAIN mergedParams = SourceKeys
       /\ \A key \in SourceKeys : mergedParams[key] = Precedence(key)

\* what holds of the merge: C13 for every key but "__proto__", which is never merged
C13_OrdinaryKeys ==
    mergePc = "merged"
    => /\ DOMAIN mergedParams = SourceKeys \ {"__proto__"}
       /\ \A key \in SourceKeys \ {"__proto__"} : mergedParams[key] = Precedence(key)

\* the diagnostics logged for a key, in order
WarningsFor(key) == SelectSeq(warnings, LAMBDA w : w.key = key)

InAllThree(key) ==
    /\ key \in DOMAIN effectiveBodyParams
    /\ key \in DOMAIN UrlParamsSeen
    /\ key \in DOMAIN normalizedPathParams

\* C14 as stated: with key a in bodyParams, urlParams and pathParams, the merged params.a is
\* the path value and exactly one collision diagnostic is recorded for a.
C14_Original ==
    (mergePc = "merged" /\ InAllThree("a"))
    => /\ mergedParams["a"] = normalizedPathParams["a"]
       /\ Len(WarningsFor("a")) = 1

\* C14 amended: with key a in bodyParams, urlParams and pathParams, the merged params.a is
\* the path value and two collision diagnostics are recorded for a, one for each overwrite:
\* the query string overriding the request body, then the path template overriding the
\* query string.
C14_PathWinsTwoDiagnostics ==
    (mergePc = "merged" /\ InAllThree("a"))
    => /\ mergedParams["a"] = normalizedPathParams["a"]
       /\ WarningsFor("a") = <<Warning("a", "query", "body"), Warning("a", "path", "query")>>

\* the merge of three sources that all hold a, the path with a value of its own
C14_Witness ==
    /\ mergePc = "merged"
    /\ InAllThree("a")
    /\ normalizedPathParams["a"] # safeUrlParams["a"]
    /\ normalizedPathParams["a"] # effectiveBodyParams["a"]

\* the entries of a method's stores
Entries(handlers, m) ==
    IF ~HasStore(handlers, m) THEN {}
    ELSE {handlers[m].exact[t] : t \in DOMAIN handlers[m].exact}
         \cup {handlers[m].dynamic[i] : i \in 1..Len(handlers[m].dynamic)}

\* the template of an entry matches a path: a store that holds nothing else finds it
MatchesAlone(entry, path) == findMatchInStore(StoreSet(EmptyStore, entry), path).found

OwnMatches(handlers, m, path) == {e \in Entries(handlers, m) : MatchesAlone(e, path)}

OtherMatches(handlers, m, path) ==
    \E k \in DOMAIN handlers \ {m} : OwnMatches(handlers, k, path) # {}

\* what C15 promises a request
Dispatched(call) ==
    IF OwnMatches(requestHandlers, call.method, call.path) # {}
    THEN /\ call.resolved.result = "handler"
         /\ \E e \in OwnMatches(requestHandlers, call.method, call.path) :
              /\ call.resolved.match.template = e.template
              /\ call.resolved.match.handler = e.handler
              /\ call.resolved.match.options = e.options
    ELSE IF callback THEN call.resolved.result = "callback"
    ELSE IF OtherMatches(requestHandlers, call.method, call.path)
    THEN call.resolved.result = "405"
    ELSE call.resolved.result = "404"

\* C15: a request is dispatched to the handler registered for its own method whose template
\* matches its path; if none matches and a callback is configured, the callback handles it;
\* otherwise the response is 405 when another method's store has an entry matching the
\* path and 404 when none has.
C15_Claim ==
    lastCall.op = "request" => Dispatched(lastCall)

\* what holds of the resolution: C15 for every path that starts with "/"
C15_SlashPaths ==
    (lastCall.op = "request" /\ startsWith(lastCall.path, "/")) => Dispatched(lastCall)

\* the positions of the dynamic templates of a store that match a path
Candidates(store, path) ==
    {i \in 1..Len(store.dynamic) : MatchesAlone(store.dynamic[i], path)}

First(positions) == CHOOSE i \in positions : \A j \in positions : i <= j

\* a lookup that found an entry found this one
FoundEntry(match, entry) ==
    /\ match.found
    /\ match.template = entry.template
    /\ match.handler = entry.handler
    /\ match.options = entry.options

\* the request was looked up in the store of its method without a throw
LookedUp(call) ==
    /\ call.op = "request"
    /\ HasStore(requestHandlers, call.method)
    /\ ~call.resolved.match.threw

\* C16: a lookup consults only the store of the request's method: the exact map at the
\* literal path, then at the path without its trailing slash if the entry there does not
\* require one, and only without an exact hit the dynamic templates in registration order,
\* the first that matches winning.
C16_LookupOrder ==
    /\ (lastCall.op = "request" /\ ~HasStore(requestHandlers, lastCall.method))
        => ~lastCall.resolved.match.found
    /\ LookedUp(lastCall)
        => LET store == requestHandlers[lastCall.method]
               path == lastCall.path
               match == lastCall.resolved.match
               trimmed == SliceOffLast(path)
           IN IF path \in DOMAIN store.exact
              THEN FoundEntry(match, store.exact[path])
              ELSE IF /\ Len(path) > 1
                      /\ endsWith(path, "/")
                      /\ trimmed \in DOMAIN store.exact
                      /\ ~store.exact[trimmed].hasTrailingSlash
              THEN FoundEntry(match, store.exact[trimmed])
              ELSE IF Candidates(store, path) # {}
              THEN FoundEntry(match, store.dynamic[First(Candidates(store, path))])
              ELSE ~match.found

\* a lookup without an exact hit found the earlier registered of two matching dynamic
\* templates
C16_Witness ==
    /\ LookedUp(lastCall)
    /\ Cardinality(Candidates(requestHandlers[lastCall.method], lastCall.path)) = 2
    /\ lastCall.resolved.match.found
    /\ lastCall.resolved.match.template = <<"/", "{id}", "/">>

\* C17: each (method, template string) has at most one registry entry, in one of the two
\* maps of the method's store, and a lookup resolved through a template returns the handler
\* and options of the most recent add for it.
C17_LatestAddWins ==
    /\ \A m \in DOMAIN requestHandlers :
         LET store == requestHandlers[m]
         IN /\ \A i, j \in 1..Len(store.dynamic) :
                 store.dynamic[i].template = store.dynamic[j].template => i = j
            /\ \A i \in 1..Len(store.dynamic) : store.dynamic[i].template \notin DOMAIN store.exact
            /\ \A e \in Entries(requestHandlers, m) :
                 /\ <<m, e.template>> \in DOMAIN latestAdd
                 /\ e.handler = latestAdd[<<m, e.template>>].handler
                 /\ e.options = latestAdd[<<m, e.template>>].options
    /\ (lastCall.op = "request" /\ lastCall.resolved.match.found)
        => LET key == <<lastCall.method, lastCall.resolved.match.template>>
           IN /\ key \in DOMAIN latestAdd
              /\ lastCall.resolved.match.handler = latestAdd[key].handler
              /\ lastCall.resolved.match.options = latestAdd[key].options

\* a request resolved through a template that was added twice, with the second handler
C17_Witness ==
    /\ lastCall.op = "request"
    /\ lastCall.resolved.match.found
    /\ lastCall.resolved.match.handler = "h2"
    /\ calls = 2
    /\ Cardinality(DOMAIN latestAdd) = 1

\* the templates registered for a method
Registrations(handlers, m) == {e.template : e \in Entries(handlers, m)}

\* the registry without the entries of a path under the given methods: every other entry
\* as it was and in its place, and no store left empty
Without(handlers, methods, path) ==
    LET cut(m) == IF m \in methods
                  THEN [exact |-> [t \in DOMAIN handlers[m].exact \ {path}
                                   |-> handlers[m].exact[t]],
                        dynamic |-> SelectSeq(handlers[m].dynamic,
                                              LAMBDA e : e.template # path)]
                  ELSE handlers[m]
    IN [m \in {k \in DOMAIN handlers : Registrations(handlers, k) \ {path} # {}
                                       \/ (k \notin methods /\ Registrations(handlers, k) # {})}
        |-> cut(m)]

\* the effect C18 gives a delete that does not raise
Deleted(call) ==
    LET methods == IF call.method = "*" THEN DOMAIN call.before
                   ELSE {toUpperCase(call.method)} \cap DOMAIN call.before
    IN /\ requestHandlers = Without(call.before, methods, call.path)
       /\ call.removed <=> \E m \in methods : call.path \in Registrations(call.before, m)

\* C18 as stated: requestHandleDelete with '*' removes the template from every method's
\* stores, with a specific method only from that method's stores, leaving all other entries
\* unchanged; it returns true iff an entry was removed, and deleting what is not registered
\* returns false without raising.
C18_Original ==
    lastCall.op = "delete" => (~lastCall.threw /\ Deleted(lastCall))

\* C18 amended: as C18 for a path that starts with "/" and a method that is '*' or, in any
\* letter case, one of GET, POST, PUT, DELETE; for any other path or method
\* requestHandleDelete raises an error and leaves the registry unchanged.
C18_DeleteSemantics ==
    lastCall.op = "delete"
    => IF /\ startsWith(lastCall.path, "/")
          /\ (lastCall.method = "*" \/ toUpperCase(lastCall.method) \in SUPPORTED_METHODS)
       THEN ~lastCall.threw /\ Deleted(lastCall)
       ELSE lastCall.threw /\ requestHandlers = lastCall.before

\* a delete with '*' removed a template that two methods had registered
C18_Witness ==
    /\ lastCall.op = "delete"
    /\ lastCall.method = "*"
    /\ lastCall.removed
    /\ Cardinality({m \in DOMAIN lastCall.before :
                      lastCall.path \in Registrations(lastCall.before, m)}) = 2

\* the last call deleted what the call before it had registered
AddedThenDeleted == lastCall.op = "delete" /\ lastCall.followsAdd

\* what a request for the deleted method and path gets now
LookupAfterDelete ==
    Resolve(requestHandlers, callback, toUpperCase(lastCall.method), lastCall.path)

\* C19 as stated: after registering a handler for (method, path) and immediately deleting
\* it, a request for that method and path gets, with no fallback callback, 404, or 405 if
\* another method still registers the path.
C19_Original ==
    (AddedThenDeleted /\ ~callback)
    => LookupAfterDelete.result =
         (IF OtherMatches(requestHandlers, toUpperCase(lastCall.method), lastCall.path)
          THEN "405" ELSE "404")

\* C19 amended: after registering a handler for (method, path) and immediately deleting it,
\* the delete has returned true, the method has no entry for that template (an entry the
\* registration replaced is not restored) and every other entry is as before the
\* registration; a request for that method and path is resolved through another template
\* of the method that matches the path if there is one, and otherwise, with no fallback
\* callback, gets 404, or 405 if another method has an entry matching the path.
C19_AddThenDelete ==
    AddedThenDeleted
    => LET m == toUpperCase(lastCall.method)
           path == lastCall.path
           own == OwnMatches(requestHandlers, m, path)
       IN /\ lastCall.removed
          /\ path \notin Registrations(requestHandlers, m)
          /\ requestHandlers = Without(lastCall.beforeAdd, {m} \cap DOMAIN lastCall.beforeAdd, path)
          /\ own # {} => /\ LookupAfterDelete.result = "handler"
                         /\ \E e \in own : FoundEntry(LookupAfterDelete.match, e)
          /\ (own = {} /\ ~callback)
              => LookupAfterDelete.result =
                   (IF OtherMatches(requestHandlers, m, path) THEN "405" ELSE "404")

\* a template was registered and deleted again while another method has the same template
C19_Witness ==
    /\ AddedThenDeleted
    /\ ~callback
    /\ LookupAfterDelete.result = "405"

\* the request path and its variant with one more slash at the end, for a path that is "/"
\* or does not end in a slash, or is such a path with one slash added
SlashPair(path) ==
    IF path = <<"/">> \/ ~endsWith(path, "/") THEN <<path, Append(path, "/")>>
    ELSE IF SliceOffLast(path) = <<"/">> \/ ~endsWith(SliceOffLast(path), "/")
    THEN <<SliceOffLast(path), path>>
    ELSE <<>>

\* C20: a template that ends with "/" matches only request paths that end with "/", and a
\* template without a trailing slash matches a request path with a single trailing slash
\* exactly if it matches the path without it, for exact and dynamic templates alike.
C20_TrailingSlash ==
    lastCall.op = "request"
    => /\ \A e \in Entries(requestHandlers, lastCall.method) :
            /\ (endsWith(e.template, "/") /\ MatchesAlone(e, lastCall.path))
                => endsWith(lastCall.path, "/")
            /\ (~e.hasTrailingSlash /\ SlashPair(lastCall.path) # <<>>)
                => (MatchesAlone(e, SlashPair(lastCall.path)[1])
                    <=> MatchesAlone(e, SlashPair(lastCall.path)[2]))
       /\ (lastCall.resolved.match.found /\ endsWith(lastCall.resolved.match.template, "/"))
           => endsWith(lastCall.path, "/")

\* a request with a trailing slash was resolved through a dynamic template without one,
\* while the method also has a dynamic template with one
C20_Witness ==
    /\ lastCall.op = "request"
    /\ lastCall.path = <<"/", "x", "/">>
    /\ lastCall.resolved.match.found
    /\ lastCall.resolved.match.template = <<"/", "{id}">>
    /\ \E e \in Entries(requestHandlers, lastCall.method) : e.template = <<"/", "{id}", "/">>

\* the templates of the followed lookup have been matched against the request path
MatchDone == matchPc \in {"lookup", "done"}

\* the segments of the request path
ReqSegments == describePath(matchPath).segments

RECURSIVE SumUpTo(_, _)
SumUpTo(v, k) == IF k = 0 THEN 0 ELSE SumUpTo(v, k - 1) + v[k]

\* the request segments that fall to template segment k when the template segments
\* consume v[1], v[2], ... request segments in turn
Run(req, v, k) == SubSeq(req, SumUpTo(v, k - 1) + 1, SumUpTo(v, k))

Decodable(run) == \A i \in 1..Len(run) : decodePathSegment(run[i]).ok

Decoded(run) == [i \in 1..Len(run) |-> decodePathSegment(run[i]).value]

\* the lengths v divide the request segments among the template segments as the template
\* requires: a literal its own value, a Param one decodable segment, a Splat a decodable run
\* of minItems to maxItems segments
Fits(segments, req, v) ==
    /\ SumUpTo(v, Len(segments)) = Len(req)
    /\ \A k \in 1..Len(segments) :
         LET seg == segments[k]
             run == Run(req, v, k)
         IN CASE seg.type = "literal" -> v[k] = 1 /\ run = <<seg.value>>
              [] seg.type = "param" -> v[k] = 1 /\ Decodable(run)
              [] seg.type = "splat" ->
                   v[k] >= seg.minItems /\ v[k] <= seg.maxItems /\ Decodable(run)

Divisions(segments, req) ==
    {v \in [1..Len(segments) -> 0..Len(req)] : Fits(segments, req, v)}

\* u takes no more than v at the first template segment where they differ
ShorterFirst(u, v) ==
    \/ u = v
    \/ \E k \in DOMAIN u : u[k] < v[k] /\ \A j \in 1..(k - 1) : u[j] = v[j]

\* the template segments that capture
Captures(segments) == {k \in 1..Len(segments) : segments[k].type # "literal"}

\* the leftmost capture of each name: its assignment is the last one made
Leftmost(segments, k) ==
    \A j \in Captures(segments) : segments[j].name = segments[k].name => j >= k

\* the templates of the lookup that matched the path
MatchedTemplates == {i \in 1..Len(matches) : matches[i].matched}

\* C21: in the match returned the splats take, from left to right, the smallest numbers of
\* segments with which the rest of the template still matches the rest of the path: the
\* lengths taken divide the path as the template requires and, against every other such
\* division, are shorter at the first segment where the two differ; each splat's array
\* has the length taken.
C21_ShortestFirst ==
    MatchDone =>
      \A i \in MatchedTemplates :
        LET segments == matchCompiled[i].segments
            taken == matches[i].taken
        IN /\ Fits(segments, ReqSegments, taken)
           /\ \A v \in Divisions(segments, ReqSegments) : ShorterFirst(taken, v)
           /\ \A k \in Captures(segments) :
                (segments[k].type = "splat" /\ Leftmost(segments, k)
                 /\ HasOwnProperty(matches[i].params, segments[k].name))
                => Len(matches[i].params[segments[k].name]) = taken[k]

\* a template with two splats matched a path that it could divide in more than one way,
\* and the first splat took one segment
C21_Witness ==
    /\ MatchDone
    /\ \E i \in MatchedTemplates :
         /\ Cardinality({k \in Captures(matchCompiled[i].segments) :
                           matchCompiled[i].segments[k].type = "splat"}) = 2
         /\ Cardinality(Divisions(matchCompiled[i].segments, ReqSegments)) > 1
         /\ matches[i].taken[1] = 1
         /\ Len(matches[i].params.rest) = 1

\* C22: in every successful match each splat took at least minItems and at most maxItems
\* segments, its array has that many elements, and the segments left after it are at least
\* as many as the later template segments require.
C22_SplatBounds ==
    MatchDone =>
      \A i \in MatchedTemplates :
        LET segments == matchCompiled[i].segments
            taken == matches[i].taken
        IN \A k \in Captures(segments) :
             segments[k].type = "splat" =>
               /\ taken[k] >= segments[k].minItems
               /\ taken[k] <= segments[k].maxItems
               /\ Len(ReqSegments) - SumUpTo(taken, k) >= MinSegmentsFrom(segments, k + 1)
               /\ (Leftmost(segments, k) /\ HasOwnProperty(matches[i].params, segments[k].name))
                  => /\ Len(matches[i].params[segments[k].name]) >= segments[k].minItems
                     /\ Len(matches[i].params[segments[k].name]) <= segments[k].maxItems

\* two splats divided a path of four segments, the second taking its maxItems of two
C22_Witness ==
    /\ MatchDone
    /\ Len(ReqSegments) = 4
    /\ \E i \in MatchedTemplates :
         /\ Len(matchCompiled[i].segments) = 2
         /\ matchCompiled[i].segments[2].type = "splat"
         /\ matchCompiled[i].segments[2].maxItems = 2
         /\ matches[i].taken = <<2, 2>>

\* C23 as stated: in a match every Param is bound to the decoded value of the one segment
\* it consumed and every Splat to the decoded values of its run, the captures and the
\* literals account for every request segment once and in order, and a failed match has
\* no bindings.
C23_Claim ==
    MatchDone =>
      \A i \in 1..Len(matches) :
        IF matches[i].matched
        THEN LET segments == matchCompiled[i].segments
                 taken == matches[i].taken
                 params == matches[i].params
             IN /\ Fits(segments, ReqSegments, taken)
                /\ DOMAIN params = {segments[k].name : k \in Captures(segments)}
                /\ \A k \in Captures(segments) :
                     /\ HasOwnProperty(params, segments[k].name)
                     /\ params[segments[k].name] =
                          (IF segments[k].type = "param"
                           THEN Decoded(Run(ReqSegments, taken, k))[1]
                           ELSE Decoded(Run(ReqSegments, taken, k)))
        ELSE "params" \notin DOMAIN matches[i]

\* the templates whose capture names are distinct and none of them __proto__
PlainNames(segments) ==
    \A k \in Captures(segments) :
      /\ segments[k].name # "__proto__"
      /\ \A j \in Captures(segments) : segments[j].name = segments[k].name => j = k

\* C23 for the templates whose capture names are distinct and none of them __proto__
C23_PlainNames ==
    MatchDone =>
      \A i \in 1..Len(matches) :
        IF matches[i].matched
        THEN LET segments == matchCompiled[i].segments
                 taken == matches[i].taken
                 params == matches[i].params
             IN /\ Fits(segments, ReqSegments, taken)
                /\ PlainNames(segments) =>
                     /\ DOMAIN params = {segments[k].name : k \in Captures(segments)}
                     /\ \A k \in Captures(segments) :
                          params[segments[k].name] =
                            (IF segments[k].type = "param"
                             THEN Decoded(Run(ReqSegments, taken, k))[1]
                             ELSE Decoded(Run(ReqSegments, taken, k)))
        ELSE "params" \notin DOMAIN matches[i]

\* the request segments that are no valid percent-encoding
BadEscapes == {"%zz"}

\* the division v gives every literal its own value, every Param one segment and every
\* Splat minItems to maxItems segments, whatever decoding makes of them
FitsRaw(segments, req, v) ==
    /\ SumUpTo(v, Len(segments)) = Len(req)
    /\ \A k \in 1..Len(segments) :
         LET seg == segments[k]
         IN CASE seg.type = "literal" -> v[k] = 1 /\ Run(req, v, k) = <<seg.value>>
              [] seg.type = "param" -> v[k] = 1
              [] seg.type = "splat" -> v[k] >= seg.minItems /\ v[k] <= seg.maxItems

\* a capture of the division v holds a segment that cannot be decoded
BadCapture(segments, req, v) ==
    \E k \in Captures(segments) :
      \E j \in 1..v[k] : Run(req, v, k)[j] \in BadEscapes

\* template i would match the request path but for segments that cannot be decoded: every
\* division of the path that suits it puts such a segment into a capture
FailsDecoding(i) ==
    /\ ~matchCompiled[i].threw
    /\ matchCompiled[i].hasTrailingSlash => describePath(matchPath).hasTrailingSlash
    /\ LET segments == matchCompiled[i].segments
           raw == {v \in [1..Len(segments) -> 0..Len(ReqSegments)] :
                     FitsRaw(segments, ReqSegments, v)}
       IN raw # {} /\ \A v \in raw : BadCapture(segments, ReqSegments, v)

\* C24: a segment that cannot be decoded at a Param or Splat position makes the template
\* not match: no match holds such a segment in a capture, a template that fails for
\* decoding alone is not matched, and the lookup goes on to the other templates: it gives
\* the handler of the first registered template that matches and otherwise the fallback
\* callback, 404 or 405, never a 500.
C24_DecodeFailureIsNoMatch ==
    matchPc = "done" =>
      /\ \A i \in MatchedTemplates :
           ~BadCapture(matchCompiled[i].segments, ReqSegments, matches[i].taken)
      /\ \A i \in 1..Len(matches) : FailsDecoding(i) => ~matches[i].matched
      /\ matchResolved.result \in {"handler", "callback", "404", "405"}
      /\ IF MatchedTemplates = {}
         THEN matchResolved.result = (IF callback THEN "callback" ELSE "404")
         ELSE /\ matchResolved.result = "handler"
              /\ matchResolved.match.handler \in MatchedTemplates
              /\ \A i \in MatchedTemplates :
                   (~matchCompiled[i].isExact /\ ~matchCompiled[matchResolved.match.handler].isExact)
                   => matchResolved.match.handler <= i

\* the first template failed for a segment that cannot be decoded and the lookup was
\* resolved by the second
C24_Witness ==
    /\ matchPc = "done"
    /\ Len(matches) = 2
    /\ FailsDecoding(1)
    /\ matchResolved.result = "handler"
    /\ matchResolved.match.handler = 2

\* C25 as stated: every captured value is URL-decoded, and a request whose captured value
\* cannot be decoded is rejected with 400.
C25_Claim ==
    matchPc = "done" =>
      /\ \A i \in MatchedTemplates :
           LET segments == matchCompiled[i].segments
           IN \A k \in Captures(segments) :
                (Leftmost(segments, k) /\ HasOwnProperty(matches[i].params, segments[k].name))
                => matches[i].params[segments[k].name] =
                     (IF segments[k].type = "param"
                      THEN Decoded(Run(ReqSegments, matches[i].taken, k))[1]
                      ELSE Decoded(Run(ReqSegments, matches[i].taken, k)))
      /\ (\E i \in 1..Len(matches) : FailsDecoding(i)) /\ MatchedTemplates = {}
         => matchResolved.result = "400"

\* C25, the part the code keeps: every captured value is URL-decoded
C25_CapturesDecoded ==
    matchPc = "done" =>
      \A i \in MatchedTemplates :
        LET segments == matchCompiled[i].segments
        IN \A k \in Captures(segments) :
             (Leftmost(segments, k) /\ HasOwnProperty(matches[i].params, segments[k].name))
             => matches[i].params[segments[k].name] =
                  (IF segments[k].type = "param"
                   THEN Decoded(Run(ReqSegments, matches[i].taken, k))[1]
                   ELSE Decoded(Run(ReqSegments, matches[i].taken, k)))


(* ---- body decoding by media type ---- *)
\* the one response of a request that error() answered with this code and text
Answered(code, text) == OwnResponses = error(<<>>, code, text)

\* the media types whose bodies endCb decodes
DecodedMediaTypes == {"application/json", "application/x-www-form-urlencoded",
                      "application/www-form-urlencoded"}

\* C26 as stated: a POST or PUT request with any other media type ends with a 400 and its
\* handler is not invoked
C26_Claim ==
    (reqMethod \in {"POST", "PUT"} /\ pc = "done" /\ contentType \notin DecodedMediaTypes)
    => /\ Len(responses) = 1
       /\ responses[1].code = 400
       /\ handlerCalls = 0

\* C26: a POST or PUT request with a media type other than application/json,
\* application/x-www-form-urlencoded and application/www-form-urlencoded (multipart/form-data
\* and no Content-Type at all included) never has its handler invoked, and once it comes to
\* body decoding it ends there with the 400 that names the two supported formats, unless the
\* authentication callback had written a response itself, which then stays the only one
C26_OtherMediaTypeRejected ==
    (reqMethod \in {"POST", "PUT"} /\ contentType \notin DecodedMediaTypes)
    => /\ handlerCalls = 0
       /\ "handler" \notin {trace[i] : i \in 1..Len(trace)}
       /\ ("decodeBody" \in {trace[i] : i \in 1..Len(trace)})
          => /\ pc = "done"
             /\ trace[Len(trace)] = "decodeBody"
             /\ Len(responses) = 1
             /\ ~CallbackWrote
                => Answered(400, "POST or PUT body must be in JSON or www-form-urlencoded format.")

\* a multipart/form-data POST was rejected at body decoding
C26_Witness ==
    /\ reqMethod = "POST"
    /\ contentType = "multipart/form-data"
    /\ Len(trace) > 0 /\ trace[Len(trace)] = "decodeBody"
    /\ Answered(400, "POST or PUT body must be in JSON or www-form-urlencoded format.")

\* C27 as stated: a POST or PUT application/json body that does not parse, or that parses to
\* an array, a string, a number, a boolean or null, ends with a 400 and the handler is
\* not invoked
C27_Claim ==
    (reqMethod \in {"POST", "PUT"} /\ contentType = "application/json"
       /\ bodyParamsObject \in {"invalid", "scalar", "falsy", "array"})
    => /\ pc = "done"
       /\ Answered(400, "Unable to parse JSON query parameters.")
       /\ handlerCalls = 0

(* ---- the method switch ---- *)
\* C28 as stated: a request with a method other than GET, POST, PUT or DELETE ends with
\* a 405 and no handler is invoked for it
C28_Claim ==
    (reqMethod \notin {"unset", "GET", "POST", "PUT", "DELETE"})
    => /\ Len(responses) = 1
       /\ responses[1].code = 405
       /\ handlerCalls = 0

\* C28: for a request with a method other than GET, POST, PUT or DELETE neither the
\* authentication callback nor any handler is invoked; it is answered 400 when the length
\* of its body differs from its Content-Length or its Content-Type does not parse, and 405
\* otherwise
C28_OtherMethodRejected ==
    (reqMethod \notin {"unset", "GET", "POST", "PUT", "DELETE"})
    => /\ pc = "done"
       /\ handler = "none"
       /\ ~authView.called
       /\ trace = <<>>
       /\ handlerCalls = 0
       /\ IF LengthMismatch(body)
          THEN Answered(400, "Request body length does not match Content-Length.")
          ELSE \/ Answered(400, "Unable to parse content-type.")
               \/ Answered(405, "Only GET, POST, PUT, and DELETE are allowed.")

\* a PATCH request was answered 405
C28_Witness ==
    /\ reqMethod = "PATCH"
    /\ Answered(405, "Only GET, POST, PUT, and DELETE are allowed.")

(* ---- the timer after the body has been read ---- *)
\* C29: once endCb has completed the read (it runs on with, or has finished, the request),
\* no response of the request is a 408 and the timer stays cleared; the framework moves the
\* request on, or writes a response of its own, only in the step in which the awaited
\* authentication callback, validator or handler has settled; a response, once written, is
\* neither replaced nor followed by another
C29_NoTimeoutAfterRead ==
    [][pc # "none"
       => /\ \A i \in 1..Len(responses') : responses'[i].code # 408
          /\ ~timeout'
          /\ (pc' # pc \/ trace' # trace \/ OwnResponses' # OwnResponses)
             => /\ pc \in {"auth", "vPath", "vUrl", "vBody", "vParams", "handler"}
                /\ AuthResolve \/ ValidatorResolve \/ HandlerResolve
          /\ responses' # responses => (responses = <<>> /\ Len(responses') = 1)]_vars

\* the handler is pending after the read completed and the timer was cleared
C29_Witness ==
    /\ pc = "handler"
    /\ completed
    /\ ~timeout
    /\ responses = <<>>

(* ---- dangerous paths ---- *)
\* C30 as stated: with rejectDangerousPaths, a request whose path has an empty, a "." or
\* a ".." segment ends with a 400 and neither the authentication callback nor a handler ran
C30_Claim ==
    (rejectDangerousPaths /\ dangerCall.has # {})
    => /\ Len(responses) = 1
       /\ responses[1].code = 400
       /\ ~authView.called
       /\ handlerCalls = 0

\* C30: with rejectDangerousPaths, for a request whose path has an empty, a "." or a ".."
\* segment neither the authentication callback nor a handler is invoked; when its method is
\* GET, POST, PUT or DELETE and it comes to the path check, it is answered 400 with the
\* reason detectDangerousPath gave; before that it is answered 405 for another method, or
\* 400 for its length, Content-Type, query string or body
C30_DangerousPathRejected ==
    (rejectDangerousPaths /\ dangerCall.has # {})
    => /\ pc = "done"
       /\ ~authView.called
       /\ handler = "none"
       /\ trace = <<>>
       /\ handlerCalls = 0
       /\ Len(responses) = 1
       /\ IF dangerCall.called
          THEN /\ reqMethod \in {"GET", "POST", "PUT", "DELETE"}
               /\ dangerCall.reason # "null"
               /\ Answered(400, dangerCall.reason)
          ELSE \/ responses[1].code = 400
               \/ /\ reqMethod \notin {"GET", "POST", "PUT", "DELETE"}
                  /\ Answered(405, "Only GET, POST, PUT, and DELETE are allowed.")

\* a GET for a path with a ".." segment was answered 400 at the path check
C30_Witness ==
    /\ rejectDangerousPaths
    /\ reqMethod = "GET"
    /\ dangerCall.called
    /\ ".." \in dangerCall.has
    /\ Answered(400, "dangerous path segment \"..\"")

(* ---- the entry guards ---- *)
\* req.headers['content-length'] is present and is not a non-negative integer in digits
MalformedContentLength(h) == h.kind # "absent" /\ ~(h.kind = "int" /\ h.value >= 0)

\* C32: a request with both a Transfer-Encoding and a Content-Length header, or with a
\* Content-Length that is not a well-formed non-negative integer, is rejected with exactly
\* one 400 before reading begins: no timer armed, no byte kept, no handler invoked, and no
\* event that follows changes that
C32_EntryGuardsReject ==
    (entryHeaders.both \/ MalformedContentLength(entryHeaders.contentLength))
    => /\ phase = "rejected"
       /\ Len(responses) = 1
       /\ responses[1].code = 400
       /\ ~timeout
       /\ ~completed
       /\ body = 0 /\ bodySize = 0
       /\ pc = "none"
       /\ handlerCalls = 0

\* a request with a negative Content-Length and no Transfer-Encoding was rejected
C32_Witness ==
    /\ ~entryHeaders.both
    /\ entryHeaders.contentLength.kind = "int"
    /\ entryHeaders.contentLength.value < 0
    /\ phase = "rejected"
    /\ responses = <<Resp(400, "Bad Content-Length header.")>>

(* ---- the accumulated body ---- *)
\* C36: the body buffer holds exactly the bytes counted unless a chunk was refused, and it
\* never holds more than the declared Content-Length (when one was declared) nor more than
\* maxBodySize (when maxBodySize > 0): a chunk that exceeds a bound is counted, not appended
C36_BodyWithinBounds ==
    /\ body <= bodySize
    /\ (phase = "reading" /\ ~destroyed) => body = bodySize
    /\ declaredContentLength # UndefinedLength => body <= declaredContentLength
    /\ maxBodySize > 0 => body <= maxBodySize
    /\ body < bodySize => /\ completed
                          /\ destroyed
                          /\ \/ ExceedsContentLength(bodySize)
                             \/ ExceedsMaxBodySize(bodySize)

\* a chunk that passed maxBodySize was refused after an earlier chunk had been appended
C36_Witness ==
    /\ phase = "reading"
    /\ maxBodySize > 0
    /\ body > 0
    /\ bodySize > maxBodySize
    /\ body <= maxBodySize
    /\ Answered(413, "Request body too large.")

(* ---- route resolution and the authentication gate ---- *)
\* C38: a 404 or 405 for a request that no handler matches, on a server without a fallback
\* callback, is written without the authentication callback having been invoked; the
\* authentication callback is invoked only for a request that resolved to a handler
C38_RouteBeforeAuth ==
    /\ (\E i \in 1..Len(responses) : responses[i].fn = "jsonError")
       => /\ ~callback
          /\ handler = "none"
          /\ ~authView.called
          /\ authResult = "pending"
          /\ trace = <<>>
          /\ handlerCalls = 0
          /\ pc = "done"
          /\ \/ responses = jsonError(<<>>, 404, "Not Found")
             \/ responses = jsonError(<<>>, 405, "Method Not Allowed")
    /\ authView.called => handler \in {"entry", "callback"}

\* a request for a path that only another method has a handler for was answered 405
C38_Witness ==
    /\ ~callback
    /\ completed
    /\ method \in {"GET", "POST", "PUT", "DELETE"}
    /\ responses = jsonError(<<>>, 405, "Method Not Allowed")
    /\ ~authView.called

(* ---- the body timer ---- *)
\* C35: a request that starts body reading is eventually completed, given that an armed
\* timer eventually fires: the timer is armed for as long as the request is being read,
\* and it is cleared only in a step that leaves the request completed
C35_EventuallyCompleted ==
    /\ (phase = "reading") ~> completed
    /\ []((phase = "reading" /\ ~completed) => timeout)
    /\ [][(timeout /\ ~timeout') => completed']_vars

\* the timer fired on a request whose client sent part of a body and never ended it
C35_Witness ==
    /\ phase = "reading"
    /\ completed
    /\ ~timeout
    /\ body > 0
    /\ Answered(408, "Timeout occured while reading the request data.")

(* ---- requestHandleAdd with bad arguments ---- *)
\* a template that compilePathTemplate refuses: no "/" at the start, a capture whose name or
\* syntax is bad, or splat bounds with min < 1 or max < min
BadTemplate(path) ==
    \/ ~startsWith(path, "/")
    \/ \E i \in 1..Len(path) :
         \/ path[i] \in {"{}", "{a-b}", "[rest:x]"}
         \/ path[i] \in {"[rest:0]", "[rest:2:1]"}

\* C33: requestHandleAdd with a method outside GET, POST, PUT, DELETE (in any case), a
\* handler that is not a function, invalid options or a template that does not compile
\* raises an error and leaves the registry as it was; with other arguments it does not raise
C33_FailedAddLeavesRegistry ==
    lastCall.op = "add"
    => /\ lastCall.threw <=> \/ toUpperCase(lastCall.method) \notin {"GET", "POST", "PUT", "DELETE"}
                              \/ lastCall.handler = "not a function"
                              \/ lastCall.options = "unsupported option"
                              \/ BadTemplate(lastCall.path)
       /\ lastCall.threw => requestHandlers = lastCall.before

\* an add with splat bounds out of order was refused on a registry that has entries
C33_Witness ==
    /\ lastCall.op = "add"
    /\ lastCall.threw
    /\ lastCall.method = "GET"
    /\ lastCall.handler = "h1"
    /\ lastCall.options = "undefined"
    /\ lastCall.path = <<"/", "users", "/", "[rest:2:1]">>
    /\ "GET" \in DOMAIN requestHandlers
    /\ requestHandlers = lastCall.before

(* ---- the shape of the registry ---- *)
\* the template has a {name} or a [name...] segment
HasCapture(template) ==
    \E i \in 1..Len(template) :
       ParamMatch(template[i]).matches \/ SplatMatch(template[i]).matches

\* C40: after any calls of requestHandleAdd and requestHandleDelete, failed ones included,
\* no method store has both maps empty, the keys of an exact map are templates without a
\* capture, the keys of a dynamic map are templates with one, and no template is a key of
\* both maps of a method
C40_RegistryShape ==
    \A m \in DOMAIN requestHandlers :
       LET store == requestHandlers[m]
           dynamicKeys == {store.dynamic[i].template : i \in 1..Len(store.dynamic)}
       IN /\ ~(DOMAIN store.exact = {} /\ Len(store.dynamic) = 0)
          /\ \A t \in DOMAIN store.exact : ~HasCapture(t)
          /\ \A t \in dynamicKeys : HasCapture(t)
          /\ DOMAIN store.exact \cap dynamicKeys = {}
          /\ Cardinality(dynamicKeys) = Len(store.dynamic)

\* a delete took the last entry of the GET store, which had a dynamic entry, and the store
\* is gone, while the store of another method remains
C40_Witness ==
    /\ lastCall.op = "delete"
    /\ lastCall.removed
    /\ "GET" \in DOMAIN lastCall.before
    /\ Len(lastCall.before["GET"].dynamic) = 1
    /\ "GET" \notin DOMAIN requestHandlers
    /\ "POST" \in DOMAIN requestHandlers

(* ---- registering a dynamic template again ---- *)
\* C39: a requestHandleAdd of a dynamic template that the method already has replaces the
\* handler and the options of its entry and leaves every entry of the dynamic map where it
\* was, so that each path resolves to the template it resolved to before, and a path that
\* resolves to the template registered again gets the new handler
C39_ReaddKeepsPosition ==
    (lastCall.op = "add" /\ ~lastCall.threw
       /\ HasStore(lastCall.before, toUpperCase(lastCall.method)))
    => LET before == lastCall.before[toUpperCase(lastCall.method)]
           after == requestHandlers[toUpperCase(lastCall.method)]
           i == IndexOf(before.dynamic, lastCall.path)
       IN i # 0
          => /\ Len(after.dynamic) = Len(before.dynamic)
             /\ \A j \in 1..Len(before.dynamic) :
                  IF j = i
                  THEN /\ after.dynamic[j].template = lastCall.path
                       /\ after.dynamic[j].handler = lastCall.handler
                       /\ after.dynamic[j].options = lastCall.options
                  ELSE after.dynamic[j] = before.dynamic[j]
             /\ \A path \in RequestPaths :
                  LET then == findMatchInStore(before, path)
                      now == findMatchInStore(after, path)
                  IN /\ now.found = then.found
                     /\ now.found
                        => /\ now.template = then.template
                           /\ now.template = lastCall.path => now.handler = lastCall.handler

\* "/{id}" was registered before "/{id}/" and then again with another handler: "/x/", which
\* both match, resolves to "/{id}" with the new handler
C39_Witness ==
    /\ lastCall.op = "add"
    /\ ~lastCall.threw
    /\ lastCall.method = "GET"
    /\ lastCall.path = <<"/", "{id}">>
    /\ lastCall.handler = "h2"
    /\ HasStore(lastCall.before, "GET")
    /\ Len(lastCall.before["GET"].dynamic) = 2
    /\ lastCall.before["GET"].dynamic[1].template = <<"/", "{id}">>
    /\ lastCall.before["GET"].dynamic[1].handler = "h1"
    /\ lastCall.before["GET"].dynamic[2].template = <<"/", "{id}", "/">>
    /\ findMatchInStore(lastCall.before["GET"], <<"/", "x", "/">>).handler = "h1"
    /\ findMatchInStore(requestHandlers["GET"], <<"/", "x", "/">>).template = <<"/", "{id}">>
    /\ findMatchInStore(requestHandlers["GET"], <<"/", "x", "/">>).handler = "h2"

(* ---- completeness of the matcher ---- *)
\* the ways to divide the request segments among the segments of template i: every literal
\* its own value, every Param one segment, every Splat minItems to maxItems segments
Assignments(i) ==
    {v \in [1..Len(matchCompiled[i].segments) -> 0..Len(ReqSegments)] :
       FitsRaw(matchCompiled[i].segments, ReqSegments, v)}

\* C37 as stated: on a path whose segments can all be decoded, a compiled template gives
\* no match only if no assignment of lengths to its captures divides the path
C37_Claim ==
    MatchDone =>
      \A i \in 1..Len(matches) :
        (~matchCompiled[i].threw /\ Decodable(ReqSegments) /\ ~matches[i].matched)
        => Assignments(i) = {}

\* C37: on a path whose segments can all be decoded, a compiled template matches exactly
\* when some assignment of lengths to its captures divides the path and the path ends with
\* a slash if the template does; the pruning by minSegmentsFrom loses no assignment
C37_MatcherComplete ==
    MatchDone =>
      \A i \in 1..Len(matches) :
        (~matchCompiled[i].threw /\ Decodable(ReqSegments))
        => (matches[i].matched
            <=> /\ Assignments(i) # {}
                /\ matchCompiled[i].hasTrailingSlash
                   => describePath(matchPath).hasTrailingSlash)

\* a template with two splats gave no match for a path that can be decoded and has
\* segments enough for the pruning to let it through: no assignment divides the path
C37_Witness ==
    /\ MatchDone
    /\ Decodable(ReqSegments)
    /\ \E i \in 1..Len(matches) :
         /\ ~matchCompiled[i].threw
         /\ Cardinality({k \in Captures(matchCompiled[i].segments) :
                           matchCompiled[i].segments[k].type = "splat"}) = 2
         /\ Len(ReqSegments) >= matchCompiled[i].minSegments
         /\ ~matches[i].matched
         /\ Assignments(i) = {}

(* ---- registry calls during a request ---- *)
\* the registry holds an entry for the method with this function and these options
HoldsEntry(handlers, m, h, options) ==
    /\ HasStore(handlers, m)
    /\ \/ \E t \in DOMAIN handlers[m].exact :
            /\ handlers[m].exact[t].handler = h
            /\ HandlerOptionsOf(handlers[m].exact[t].options) = options
       \/ \E i \in 1..Len(handlers[m].dynamic) :
            /\ handlers[m].dynamic[i].handler = h
            /\ HandlerOptionsOf(handlers[m].dynamic[i].options) = options

\* C34: a request takes its handler and options from the registry once, in the step that
\* goes on to invoke the authentication callback; no later step, and no requestHandleAdd or
\* requestHandleDelete made meanwhile, changes them, and the function invoked in the end
\* is the one the lookup gave, whether or not the registry still holds it
C34_LookupOnce ==
    /\ [](authView.called => handler # "none")
    /\ [](handlerCalls > 0 => invoked.handler = handler)
    /\ [][(pc = "none" /\ pc' = "auth")
           => \/ handler' = "callback" /\ handlerOptions' = NoOptions
              \/ HoldsEntry(requestHandlers, method', handler', handlerOptions')]_vars
    /\ [][pc # "none" => (handler' = handler /\ handlerOptions' = handlerOptions)]_vars

\* the entry found for the request was deleted while its paramsValidator was pending, and
\* its function was invoked all the same
C34_Witness ==
    /\ handlerCalls = 1
    /\ validated = {"params"}
    /\ invoked.handler = "h2"
    /\ ~invoked.registered
    /\ requestHandlers = EmptyObject

(* ---- upgrade requests ---- *)
\* C31: the upgrade handler is invoked only after the authentication callback returned a
\* truthy value, and it is given the parsed query, the head and the socket, which the
\* authentication callback was not; when authentication returns a falsy value, or the
\* authentication callback or the upgrade handler throws, the socket is destroyed,
\* upgradeCb returns false and logs no successful upgrade
C31_UpgradeAfterAuth ==
    /\ upgradeSaw.called
       => /\ upgradeAuth = "truthy"
          /\ authSaw.called
          /\ authSaw.r = [NoR EXCEPT !.url = upgradeSaw.r.url]
          /\ upgradeSaw.r.s = "s"
          /\ upgradeSaw.r.head = "head"
          /\ upgradeSaw.r.params = parseQuery(authSaw.query)
    /\ upgradeRet # "none" => upgradeSaw.called
    /\ (upgradeAuth \in {"falsy", "throws"} \/ upgradeRet = "throws")
       => /\ upgradePc = "done"
          /\ socket.destroyed
          /\ upgradeReturn = "false"
          /\ upgradeLog = <<>>
    /\ upgradeAuth \in {"falsy", "throws"} => ~upgradeSaw.called
    /\ upgradeLog # <<>> => upgradeAuth = "truthy" /\ upgradeRet = "truthy" /\ debug

\* with debug on, authentication returned a falsy value: the upgrade handler was not
\* invoked, the socket is destroyed and nothing is logged
C31_Witness ==
    /\ debug
    /\ upgradeAuth = "falsy"
    /\ upgradePc = "done"
    /\ ~upgradeSaw.called
    /\ socket.destroyed
    /\ upgradeReturn = "false"
    /\ upgradeLog = <<>>

====
